---- MODULE Spec2Model ----
(***************************************************************************)
(* Verification model of the Event-Based-Image-Retrieval pipeline:         *)
(*   - rrf_rerank.py       : standalone RRF reranker (normal and adaptive)  *)
(*   - search_pipeline.py  : orchestrator, image stage, booster, CSV output *)
(*   - entity_search_system.py : stage-1 search and its submission CSV      *)
(* Scores that the code keeps as floats are kept here as exact rationals    *)
(* over a common denominator (integers), so that comparisons are exact.     *)
(***************************************************************************)
EXTENDS Integers, Sequences, FiniteSets, TLC

VARIABLES
    dfs,               \* rrf_rerank: the loaded submission files, in postfix order
    rrf_k,             \* rrf_rerank: parameter k
    top_n,             \* rrf_rerank: parameter top_n (0 stands for None)
    adaptive,          \* which of the two rerank functions is running
    idx,               \* rrf_rerank: loop position in all_query_ids
    reranked_results,  \* rrf_rerank: rows appended so far / returned frame
    skipped_queries,   \* rrf_rerank: counter of skipped queries
    article_scores,    \* rrf_rerank: the score dictionary of the query just fused
    rrf_pc,            \* rrf_rerank: "loop" | "done" | "idle"
    boost_cfg,         \* pipeline: the booster's configuration (constructor arguments)
    base_score,        \* booster: hit.score, the similarity of the hit
    article_rank,      \* booster: article_rank_map.get(image_id, 999)
    ranking_boost,     \* booster: the boost computed for the hit
    final_score,       \* booster: base_score + ranking_boost
    boost_pc,          \* booster: "hit" | "scored" | "idle"
    fs,                \* the files on disk: a set of [path, content]
    csv_files,         \* rrf_rerank_csvs: the list of paths it is called with
    output_dir,        \* pipeline: the output directory (<<>> stands for None)
    submission_csv_path, \* pipeline: the stage-1 path handed to the image stage
    run_args,          \* pipeline: the arguments of the run
    img_cfg,           \* pipeline: the configuration the constructor built
    article_to_images, \* pipeline: self.article_to_images
    qdrant,            \* the vector index: which views hold embeddings, what a search returns
    es_index,          \* the text index: its queries, the articles a search finds
    output_submission_csv, \* search_all_queries_and_save: the path it writes to
    cascade_csv_path,  \* pipeline: the stage-1 path text_search_pipeline returned
    classified,        \* image stage: result of load_and_classify_queries
    family_search_results,   \* fusion: per family, the search results that are aggregated
    family_results,    \* image stage: family_results of the multi-model pipeline
    final_results,     \* image stage: final_results, query id -> image ids
    track2_csv_path,   \* pipeline: the path save_final_image_results returned
    pipe_pc,           \* pipeline: position of the pipeline run, or "idle"
    query_entities,    \* article search: the entities of the query
    search_top_k,      \* article search: parameter top_k
    es_articles,       \* article search: the article documents of the text index
    es_response,       \* article search: what the POST to the text index does
    article_results,   \* article search: the list returned to the caller
    search_pc,         \* article search: "call" | "returned" | "raised" | "idle"
    articles_file,     \* uploader: whether the file exists, its articles not yet read
    batch_size,        \* uploader: parameter batch_size
    batch_data,        \* uploader: the bulk lines collected for the next call
    total_uploaded,    \* uploader: counter of uploaded articles
    bulk_calls,        \* uploader: the bulk calls made, each with its lines and its outcome
    upload_returned,   \* uploader: what upload_articles_from_file returned
    upload_pc          \* uploader: "call" | "stream" | "returned" | "idle"

rrf_vars == <<dfs, rrf_k, top_n, adaptive, idx, reranked_results, skipped_queries,
              article_scores, rrf_pc>>

boost_vars == <<boost_cfg, base_score, article_rank, ranking_boost, final_score, boost_pc>>

pipe_vars == <<fs, csv_files, output_dir, submission_csv_path, run_args, img_cfg,
               article_to_images, qdrant, es_index, output_submission_csv, cascade_csv_path,
               classified, family_search_results, family_results, final_results, track2_csv_path,
               pipe_pc>>

search_vars == <<query_entities, search_top_k, es_articles, es_response, article_results,
                 search_pc>>

upload_vars == <<articles_file, batch_size, batch_data, total_uploaded, bulk_calls,
                 upload_returned, upload_pc>>

vars == <<rrf_vars, boost_vars, pipe_vars, search_vars, upload_vars>>

\* What the reranker, the booster and the pipeline run each leave alone.
rrf_frame == <<boost_vars, pipe_vars, search_vars, upload_vars>>

boost_frame == <<rrf_vars, pipe_vars, search_vars, upload_vars>>

pipe_frame == <<rrf_vars, boost_vars, search_vars, upload_vars>>

(***************************************************************************)
(* A component that a specification does not run stays idle.               *)
(***************************************************************************)
RrfIdle ==
    /\ dfs = <<>> /\ rrf_k = 0 /\ top_n = 0 /\ adaptive = FALSE /\ idx = 0
    /\ reranked_results = <<>> /\ skipped_queries = 0 /\ article_scores = <<>>
    /\ rrf_pc = "idle"

BoostIdle ==
    /\ boost_cfg = [use_sigmoid_boosting |-> TRUE, article_ranking_boost |-> 300000,
                    similarity_weight |-> 100, rank_weight |-> 25, sigmoid_bias |-> 0,
                    max_boost_factor |-> 500]
    /\ base_score = 0 /\ article_rank = 1 /\ ranking_boost = 0 /\ final_score = 0
    /\ boost_pc = "idle"

\* The parts of the pipeline object that a run of one function does not use.
ImageIdle ==
    /\ run_args = <<>> /\ img_cfg = <<>> /\ article_to_images = <<>> /\ qdrant = <<>>
    /\ es_index = <<>> /\ output_submission_csv = <<>> /\ cascade_csv_path = <<>>
    /\ classified = <<>> /\ family_search_results = <<>> /\ family_results = <<>>
    /\ final_results = <<>> /\ track2_csv_path = <<>>

PipeIdle ==
    /\ fs = {} /\ csv_files = <<>> /\ output_dir = <<>> /\ submission_csv_path = <<>>
    /\ ImageIdle
    /\ pipe_pc = "idle"

SearchIdle ==
    /\ query_entities = <<>> /\ search_top_k = 0 /\ es_articles = <<>>
    /\ es_response = <<>>
    /\ article_results = <<>> /\ search_pc = "idle"

UploadIdle ==
    /\ articles_file = <<>> /\ batch_size = 0 /\ batch_data = <<>> /\ total_uploaded = 0
    /\ bulk_calls = <<>> /\ upload_returned = "none" /\ upload_pc = "idle"

(***************************************************************************)
(* Bounds of the model.                                                    *)
(***************************************************************************)
\* Largest number of article_id_* / image_id_* columns of a submission file.
MaxCols == 3

\* Largest number of copies of one file that are fused.
MaxCopies == 3

\* Article / image identifiers that occur in ranked lists.
Items == {"a", "b", "c"}

\* pandas' missing value (an empty CSV cell read by pd.read_csv).
NaN == "nan"

\* Cell contents that are not identifiers: NaN, the sentinel, and a sentinel
\* written with a leading blank.
Blanks == {NaN, "#", " #"}

Cells == Items \cup Blanks

\* Query ids of the submission files; the ids are ordered as Python orders them.
QueryIds == {1, 2}

\* Values of k the reranker is run with (60 is the default).
RrfKs == {0, 60}

(***************************************************************************)
(* Generic helpers.                                                        *)
(***************************************************************************)
Max(a, b) == IF a >= b THEN a ELSE b

Min(a, b) == IF a <= b THEN a ELSE b

RECURSIVE SeqMax(_)
SeqMax(s) == IF Len(s) = 0 THEN 0
             ELSE IF Len(s) = 1 THEN s[1]
             ELSE Max(s[1], SeqMax(Tail(s)))

RECURSIVE SeqMin(_)
SeqMin(s) == IF Len(s) = 1 THEN s[1] ELSE Min(s[1], SeqMin(Tail(s)))

\* All sequences over S of length exactly n.
SeqsOfLen(S, n) == [1..n -> S]

\* sorted(list(set)) over integers: the ascending enumeration of a finite set.
RECURSIVE SortedList(_)
SortedList(S) ==
    IF S = {} THEN <<>>
    ELSE LET m == CHOOSE x \in S : \A y \in S : x <= y
         IN <<m>> \o SortedList(S \ {m})

(***************************************************************************)
(* rrf_rerank.py: cells, scores, the score dictionary.                     *)
(***************************************************************************)
\* str.strip() on the cell texts of the model.
Strip(s) == IF s = " #" THEN "#" ELSE IF s = " " THEN "" ELSE s

\* The test the code repeats for a missing cell:
\* pd.isna(x) or str(x).strip() == '#' or str(x).strip() == ''.
IsMissing(c) == c = NaN \/ Strip(c) = "#" \/ Strip(c) = ""

\* (k + 1) * (k + 2) * ... * (k + n)
RECURSIVE ProdUpTo(_, _)
ProdUpTo(k, n) == IF n = 0 THEN 1 ELSE (k + n) * ProdUpTo(k, n - 1)

\* A common denominator of all 1/(k + rank), rank in 1..MaxCols + 1.
ScoreDen(k) == ProdUpTo(k, MaxCols + 1)

\* rrf_score(rank, k) = 1/(k + rank), as a numerator over ScoreDen(k).
rrf_score_RankOff(rank, k) == IF rank = 0 THEN 0 ELSE ScoreDen(k) \div (k + rank + 1)

rrf_score(rank, k) == IF rank = 0 THEN 0 ELSE ScoreDen(k) \div (k + rank)

\* A dictionary that puts a new key before the keys it holds.
RECURSIVE AddScore_NewFirst(_, _, _)
AddScore_NewFirst(scores, id, s) ==
    IF \A i \in 1..Len(scores) : scores[i].id # id
    THEN <<[id |-> id, score |-> s]>> \o scores
    ELSE IF scores[1].id = id
         THEN <<[id |-> id, score |-> scores[1].score + s]>> \o Tail(scores)
         ELSE <<scores[1]>> \o AddScore_NewFirst(Tail(scores), id, s)

\* article_scores[article_id] += s on a defaultdict(float); the dictionary is
\* kept as the sequence of its items in insertion order.
RECURSIVE AddScore(_, _, _)
AddScore(scores, id, s) ==
    IF Len(scores) = 0 THEN <<[id |-> id, score |-> s]>>
    ELSE IF scores[1].id = id
         THEN <<[id |-> id, score |-> scores[1].score + s]>> \o Tail(scores)
         ELSE <<scores[1]>> \o AddScore(Tail(scores), id, s)

\* sorted(items, key=score, reverse=True): stable, descending.
RECURSIVE InsertDesc_Ascending(_, _)
InsertDesc_Ascending(sorted, x) ==
    IF Len(sorted) = 0 THEN <<x>>
    ELSE IF sorted[1].score <= x.score
         THEN <<sorted[1]>> \o InsertDesc_Ascending(Tail(sorted), x)
         ELSE <<x>> \o sorted

RECURSIVE InsertDesc(_, _)
InsertDesc(sorted, x) ==
    IF Len(sorted) = 0 THEN <<x>>
    ELSE IF sorted[1].score >= x.score
         THEN <<sorted[1]>> \o InsertDesc(Tail(sorted), x)
         ELSE <<x>> \o sorted

RECURSIVE SortedArticlesFrom(_, _)
SortedArticlesFrom(scores, acc) ==
    IF Len(scores) = 0 THEN acc
    ELSE SortedArticlesFrom(Tail(scores), InsertDesc(acc, scores[1]))

SortedArticles(scores) == SortedArticlesFrom(scores, <<>>)

\* The "Fill top articles" loop: the first n sorted ids, then '#'.
FillTop(sorted, n) ==
    [i \in 1..n |-> IF i <= Len(sorted) THEN sorted[i].id ELSE "#"]

\* The "Create empty result row" loop.
EmptyRow(n) == [i \in 1..n |-> "#"]

\* df[df['query_id'] == query_id]
QueryRows(df, q) == SelectSeq(df.rows, LAMBDA r : r.query_id = q)

\* len(article_cols) per file, and top_n when it is None.
ArticleColCounts(files) == [i \in 1..Len(files) |-> files[i].cols]

OutputSize(files, n) == IF n = 0 THEN SeqMax(ArticleColCounts(files)) ELSE n

\* sorted(list(all_query_ids))
FileQueryIds(df) == {df.rows[j].query_id : j \in 1..Len(df.rows)}

AllQueryIds(files) ==
    SortedList(UNION {FileQueryIds(files[i]) : i \in 1..Len(files)})

(***************************************************************************)
(* rrf_rerank.py: perform_rrf_reranking (normal mode), one query.          *)
(***************************************************************************)
\* has_valid_articles of one file: the query has a row (the first one is
\* taken) and some cell of it is not missing.
HasValidArticles_RowOnly(df, q) == Len(QueryRows(df, q)) > 0

HasValidArticles(df, q) ==
    /\ Len(QueryRows(df, q)) > 0
    /\ \E c \in 1..df.cols : ~IsMissing(QueryRows(df, q)[1].cells[c])

\* query_has_results_in_all_files
QueryHasResultsInAllFiles(files, q) ==
    \A i \in 1..Len(files) : HasValidArticles(files[i], q)

\* for rank, col in enumerate(article_cols, 1): skip missing cells, add
\* rrf_score(rank, k) for the others.
RECURSIVE CollectRow(_, _, _, _, _)
CollectRow(cells, n, rank, k, scores) ==
    IF rank > n THEN scores
    ELSE IF IsMissing(cells[rank])
         THEN CollectRow(cells, n, rank + 1, k, scores)
         ELSE CollectRow(cells, n, rank + 1, k,
                         AddScore(scores, cells[rank], rrf_score(rank, k)))

\* for df in dfs: ... over the first row of the query in every file.
RECURSIVE CollectFiles(_, _, _, _, _)
CollectFiles(files, i, q, k, scores) ==
    IF i > Len(files) THEN scores
    ELSE CollectFiles(files, i + 1, q, k,
             CollectRow(QueryRows(files[i], q)[1].cells, files[i].cols, 1, k, scores))

\* article_scores of one query in normal mode (nothing is collected for a
\* skipped query).
NormalScores(files, q, k) ==
    IF ~QueryHasResultsInAllFiles(files, q) THEN <<>>
    ELSE CollectFiles(files, 1, q, k, <<>>)

\* The result row of one query in normal mode.
NormalRow(files, q, k, n) ==
    IF ~QueryHasResultsInAllFiles(files, q)
    THEN [query_id |-> q, cells |-> EmptyRow(OutputSize(files, n))]
    ELSE [query_id |-> q,
          cells |-> FillTop(SortedArticles(NormalScores(files, q, k)),
                            OutputSize(files, n))]

(***************************************************************************)
(* rrf_rerank.py: perform_rrf_reranking_adaptive, one query.               *)
(***************************************************************************)
\* valid_article_count: the cells before the first missing one.
RECURSIVE LeadingValid(_, _, _)
LeadingValid(cells, n, c) ==
    IF c > n THEN 0
    ELSE IF IsMissing(cells[c]) THEN 0
    ELSE 1 + LeadingValid(cells, n, c + 1)

\* query_article_counts: 0 for a file that has no row of the query.
QueryArticleCounts(files, q) ==
    [i \in 1..Len(files) |->
        IF Len(QueryRows(files[i], q)) = 0 THEN 0
        ELSE LeadingValid(QueryRows(files[i], q)[1].cells, files[i].cols, 1)]

\* all(valid_files)
AllValidFiles(files, q) ==
    \A i \in 1..Len(files) : QueryArticleCounts(files, q)[i] > 0

DynamicLimit_NotDoubled(files, q) ==
    Min(SeqMin(QueryArticleCounts(files, q)), SeqMax(QueryArticleCounts(files, q)))

\* dynamic_limit = min(min_article_count * 2, max(query_article_counts))
DynamicLimit(files, q) ==
    Min(SeqMin(QueryArticleCounts(files, q)) * 2, SeqMax(QueryArticleCounts(files, q)))

\* Second pass over one row: stop once articles_used reaches the limit, skip
\* missing cells (without counting them), score the others at their column rank.
RECURSIVE CollectRowAdaptive(_, _, _, _, _, _, _)
CollectRowAdaptive(cells, n, rank, used, limit, k, scores) ==
    IF rank > n THEN scores
    ELSE IF used >= limit THEN scores
    ELSE IF IsMissing(cells[rank])
         THEN CollectRowAdaptive(cells, n, rank + 1, used, limit, k, scores)
         ELSE CollectRowAdaptive(cells, n, rank + 1, used + 1, limit, k,
                                 AddScore(scores, cells[rank], rrf_score(rank, k)))

RECURSIVE CollectFilesAdaptive(_, _, _, _, _, _)
CollectFilesAdaptive(files, i, q, limit, k, scores) ==
    IF i > Len(files) THEN scores
    ELSE CollectFilesAdaptive(files, i + 1, q, limit, k,
             CollectRowAdaptive(QueryRows(files[i], q)[1].cells, files[i].cols,
                                1, 0, limit, k, scores))

\* article_scores of one query in adaptive mode.
AdaptiveScores(files, q, k) ==
    IF ~AllValidFiles(files, q) THEN <<>>
    ELSE CollectFilesAdaptive(files, 1, q, DynamicLimit(files, q), k, <<>>)

\* The result row of one query in adaptive mode.
AdaptiveRow(files, q, k, n) ==
    IF ~AllValidFiles(files, q)
    THEN [query_id |-> q, cells |-> EmptyRow(OutputSize(files, n))]
    ELSE [query_id |-> q,
          cells |-> FillTop(SortedArticles(AdaptiveScores(files, q, k)),
                            OutputSize(files, n))]

\* result_df.sort_values('query_id'): stable, ascending.
RECURSIVE InsertByQueryId(_, _)
InsertByQueryId(sorted, r) ==
    IF Len(sorted) = 0 THEN <<r>>
    ELSE IF sorted[1].query_id <= r.query_id
         THEN <<sorted[1]>> \o InsertByQueryId(Tail(sorted), r)
         ELSE <<r>> \o sorted

RECURSIVE SortValuesFrom(_, _)
SortValuesFrom(rows, acc) ==
    IF Len(rows) = 0 THEN acc
    ELSE SortValuesFrom(Tail(rows), InsertByQueryId(acc, rows[1]))

SortValues(rows) == SortValuesFrom(rows, <<>>)

(***************************************************************************)
(* rrf_rerank.py: the two rerank functions as state machines.              *)
(***************************************************************************)
\* One pass of the loop "for idx, query_id in enumerate(all_query_ids, 1)" of
\* perform_rrf_reranking.
RerankQuery ==
    /\ rrf_pc = "loop"
    /\ ~adaptive
    /\ idx <= Len(AllQueryIds(dfs))
    /\ LET q == AllQueryIds(dfs)[idx]
       IN /\ reranked_results' = Append(reranked_results, NormalRow(dfs, q, rrf_k, top_n))
          /\ article_scores' = NormalScores(dfs, q, rrf_k)
          /\ skipped_queries' = IF QueryHasResultsInAllFiles(dfs, q)
                                THEN skipped_queries ELSE skipped_queries + 1
    /\ idx' = idx + 1
    /\ UNCHANGED <<dfs, rrf_k, top_n, adaptive, rrf_pc>>
    /\ UNCHANGED rrf_frame

\* One pass of the loop of perform_rrf_reranking_adaptive.
RerankQueryAdaptive ==
    /\ rrf_pc = "loop"
    /\ adaptive
    /\ idx <= Len(AllQueryIds(dfs))
    /\ LET q == AllQueryIds(dfs)[idx]
       IN /\ reranked_results' = Append(reranked_results, AdaptiveRow(dfs, q, rrf_k, top_n))
          /\ article_scores' = AdaptiveScores(dfs, q, rrf_k)
          /\ skipped_queries' = IF AllValidFiles(dfs, q)
                                THEN skipped_queries ELSE skipped_queries + 1
    /\ idx' = idx + 1
    /\ UNCHANGED <<dfs, rrf_k, top_n, adaptive, rrf_pc>>
    /\ UNCHANGED rrf_frame

\* After the loop: build the frame, sort it by query_id, return it.
RerankReturn ==
    /\ rrf_pc = "loop"
    /\ idx > Len(AllQueryIds(dfs))
    /\ reranked_results' = SortValues(reranked_results)
    /\ rrf_pc' = "done"
    /\ UNCHANGED <<dfs, rrf_k, top_n, adaptive, idx, skipped_queries, article_scores>>
    /\ UNCHANGED rrf_frame

(***************************************************************************)
(* search_pipeline.py: the rank-aware booster.  Scores are integers in     *)
(* millionths; the weights are in tenths, max_boost_factor in thousandths.  *)
(* math.log and the sigmoid are tabulated (the sigmoid at integer inputs,    *)
(* linear in between).                                                      *)
(***************************************************************************)
\* One, in the unit of the scores.
Unit == 1000000

\* The hard threshold of calculate_sigmoid_boost, 0.5.
SimilarityFloor == 500000

\* The rank of an image that article_rank_map does not hold.
NoRank == 999

\* math.log(article_rank) in millionths, for the ranks of the model.
LogMicro(r) ==
    CASE r = 1 -> 0
      [] r = 2 -> 693147
      [] r = 3 -> 1098612
      [] OTHER -> 6906755

\* 1 / (1 + exp(-n)) in millionths at the integers n = 0..6.
SigmoidKnot(n) ==
    CASE n = 0 -> 500000
      [] n = 1 -> 731059
      [] n = 2 -> 880797
      [] n = 3 -> 952574
      [] n = 4 -> 982014
      [] n = 5 -> 993307
      [] OTHER -> 997527

\* 1.0 / (1.0 + math.exp(-x)) for x >= 0 in millionths.
SigmoidPos(x) ==
    IF x >= 6 * Unit THEN SigmoidKnot(6)
    ELSE LET n == x \div Unit
             f == (x % Unit) \div 1000
         IN SigmoidKnot(n) + ((SigmoidKnot(n + 1) - SigmoidKnot(n)) * f) \div 1000

\* The try/except around the sigmoid: math.exp(-x) overflows for x below
\* about -709, and then the output is 0.0 (x is not positive there).
Sigmoid(x) ==
    IF x < (0 - 709) * Unit THEN 0
    ELSE IF x >= 0 THEN SigmoidPos(x)
    ELSE Unit - SigmoidPos(0 - x)

calculate_sigmoid_boost_NoFloor(cfg, similarity_score, rank) ==
    IF ~cfg.use_sigmoid_boosting
    THEN cfg.article_ranking_boost \div rank
    ELSE (Sigmoid((cfg.similarity_weight * similarity_score) \div 10
                 - (cfg.rank_weight * LogMicro(rank)) \div 10
                 + cfg.sigmoid_bias) \div 1000) * cfg.max_boost_factor

\* calculate_sigmoid_boost(similarity_score, article_rank)
calculate_sigmoid_boost(cfg, similarity_score, rank) ==
    IF ~cfg.use_sigmoid_boosting
    THEN cfg.article_ranking_boost \div rank
    ELSE IF similarity_score < SimilarityFloor THEN 0
    ELSE (Sigmoid((cfg.similarity_weight * similarity_score) \div 10
                 - (cfg.rank_weight * LogMicro(rank)) \div 10
                 + cfg.sigmoid_bias) \div 1000) * cfg.max_boost_factor

\* The configurations of the booster: the defaults and a variation of each.
BoostConfigs ==
    [use_sigmoid_boosting : BOOLEAN,
     article_ranking_boost : {0, 300000},
     similarity_weight : {0, 100},
     rank_weight : {0, 25},
     sigmoid_bias : {0, (0 - 800) * Unit},
     max_boost_factor : {500, 2000}]

\* Similarities returned by the vector search (score_threshold = 0.0).
Similarities == {0, 400000, 499999, 500000, 600000, 900000}

ArticleRanks == {1, 2, 3, NoRank}

\* One pass of "for hit in search_result" of
\* search_similar_images_with_ranking_boost.
ScoreHit ==
    /\ boost_pc = "hit"
    /\ ranking_boost' = calculate_sigmoid_boost(boost_cfg, base_score, article_rank)
    /\ final_score' = base_score + calculate_sigmoid_boost(boost_cfg, base_score, article_rank)
    /\ boost_pc' = "scored"
    /\ UNCHANGED <<boost_cfg, base_score, article_rank>>
    /\ UNCHANGED boost_frame

InitBoost ==
    /\ boost_cfg \in BoostConfigs
    /\ base_score \in Similarities
    /\ article_rank \in ArticleRanks
    /\ ranking_boost = 0
    /\ final_score = 0
    /\ boost_pc = "hit"
    /\ RrfIdle
    /\ PipeIdle
    /\ SearchIdle
    /\ UploadIdle

NextBoost == ScoreHit

SpecBoost == InitBoost /\ [][NextBoost]_vars

\* C10 as claimed: a hit of similarity below 0.5 keeps its similarity as
\* final score, for every article rank and every configuration.
C10_FloorAnyConfig ==
    (boost_pc = "scored" /\ base_score < SimilarityFloor) => final_score = base_score

\* C10 amended: with sigmoid boosting in use, a hit of similarity below 0.5
\* gets boost 0 and final score equal to its similarity, for every rank and
\* every Ws, Wr, b, M.
C10_FloorSigmoid ==
    (boost_pc = "scored" /\ boost_cfg.use_sigmoid_boosting /\ base_score < SimilarityFloor)
        => (ranking_boost = 0 /\ final_score = base_score)

\* C10 happens: s = 0.40, r = 1, sigmoid mode; without the floor the boost
\* would be positive there.
C10_Witness ==
    /\ boost_pc = "scored" /\ boost_cfg.use_sigmoid_boosting
    /\ base_score = 400000 /\ article_rank = 1 /\ final_score = 400000
    /\ calculate_sigmoid_boost_NoFloor(boost_cfg, base_score, article_rank) > 0

(***************************************************************************)
(* Specification of the reranker: two submission files, the first with    *)
(* MaxCols columns and the second with two; query 2 has an arbitrary row    *)
(* (or none) in each file; query 1 is optional, only in the first file and  *)
(* stored after query 2.                                                    *)
(***************************************************************************)
\* The rows a file can hold for query 2: none, or one row of n cells.
OptRows(n) ==
    {<<>>} \cup {<<[query_id |-> 2, cells |-> c]>> : c \in SeqsOfLen(Cells, n)}

\* A row of query 1 with one valid entry.
SideRow(n) == <<[query_id |-> 1, cells |-> [i \in 1..n |-> IF i = 1 THEN "a" ELSE " #"]]>>

InitRrf ==
    /\ \E ra \in OptRows(MaxCols), rb \in OptRows(2), side \in BOOLEAN :
          /\ dfs = << [cols |-> MaxCols,
                       rows |-> ra \o (IF side THEN SideRow(MaxCols) ELSE <<>>)],
                      [cols |-> 2, rows |-> rb] >>
          /\ Len(dfs[1].rows) + Len(dfs[2].rows) > 0
    /\ rrf_k \in RrfKs
    /\ top_n \in {0, 2}
    /\ adaptive \in BOOLEAN
    /\ idx = 1
    /\ reranked_results = <<>>
    /\ skipped_queries = 0
    /\ article_scores = <<>>
    /\ rrf_pc = "loop"
    /\ BoostIdle
    /\ PipeIdle
    /\ SearchIdle
    /\ UploadIdle

NextRrf == RerankQuery \/ RerankQueryAdaptive \/ RerankReturn

SpecRrf == InitRrf /\ [][NextRrf]_vars

(***************************************************************************)
(* Properties of the reranker.  They are stated on the files and on the    *)
(* returned rows, without the operators that model the code.               *)
(***************************************************************************)
HasRow(df, q) == \E j \in 1..Len(df.rows) : df.rows[j].query_id = q

RowCells(df, q) ==
    df.rows[CHOOSE j \in 1..Len(df.rows) : df.rows[j].query_id = q].cells

\* The file has no row of the query, or a row without any identifier.
NoValidEntry(df, q) ==
    \/ ~HasRow(df, q)
    \/ \A c \in 1..df.cols : RowCells(df, q)[c] \notin Items

\* Identifiers first, then only cells that are not identifiers.
LeadingOnly(cells, n) ==
    \A c \in 1..(n - 1) : cells[c] \notin Items => cells[c + 1] \notin Items

\* Number of identifiers before the first cell that is not one.
LeadCount(df, q) ==
    IF ~HasRow(df, q) THEN 0
    ELSE CHOOSE m \in 0..df.cols :
            /\ \A c \in 1..m : RowCells(df, q)[c] \in Items
            /\ m < df.cols => RowCells(df, q)[m + 1] \notin Items

LeadCounts(q) == {LeadCount(dfs[i], q) : i \in 1..Len(dfs)}

\* cap = min(2 * m, max count)
Cap(q) ==
    LET m  == CHOOSE x \in LeadCounts(q) : \A y \in LeadCounts(q) : x <= y
        mx == CHOOSE x \in LeadCounts(q) : \A y \in LeadCounts(q) : x >= y
    IN IF 2 * m <= mx THEN 2 * m ELSE mx

\* Width of the output: top_n, by default the widest file.
TopNCols ==
    IF top_n # 0 THEN top_n
    ELSE CHOOSE n \in {dfs[i].cols : i \in 1..Len(dfs)} :
            \A i \in 1..Len(dfs) : dfs[i].cols <= n

\* Sum of f[x] over x in S.
RECURSIVE SumOver(_, _)
SumOver(S, f) ==
    IF S = {} THEN 0
    ELSE LET x == CHOOSE y \in S : TRUE IN f[x] + SumOver(S \ {x}, f)

\* Sum over the files of 1/(k + rank) over the ranks <= depth at which the
\* item stands in the file's row of the query, over the denominator ScoreDen.
RankSum(x, q, depth) ==
    LET InFile == [i \in 1..Len(dfs) |->
            IF ~HasRow(dfs[i], q) THEN 0
            ELSE SumOver({c \in 1..dfs[i].cols :
                             c <= depth /\ RowCells(dfs[i], q)[c] = x},
                         [c \in 1..dfs[i].cols |-> ScoreDen(rrf_k) \div (rrf_k + c)])]
    IN SumOver(1..Len(dfs), InFile)

\* cells is: the items of positive score in descending score, cut to n, then '#'.
RankedBy(cells, Score(_), n) ==
    LET V == {x \in Items : Score(x) > 0}
        m == IF Cardinality(V) <= n THEN Cardinality(V) ELSE n
    IN /\ Len(cells) = n
       /\ \A c \in 1..n : IF c <= m THEN cells[c] \in V ELSE cells[c] = "#"
       /\ \A c, d \in 1..m : c < d => /\ cells[c] # cells[d]
                                      /\ Score(cells[c]) >= Score(cells[d])
       /\ \A x \in V : (\A c \in 1..m : cells[c] # x) =>
                          \A c \in 1..m : Score(cells[c]) >= Score(x)

\* The dictionary holds exactly the items of positive Score, each with it.
ScoresAre(scores, Score(_)) ==
    /\ \A e \in 1..Len(scores) : scores[e].score = Score(scores[e].id)
    /\ \A x \in Items : Score(x) > 0 => \E e \in 1..Len(scores) : scores[e].id = x

\* The query whose pass of the loop has just ended.
LastQuery == reranked_results[Len(reranked_results)].query_id

InLoopAfterQuery == rrf_pc = "loop" /\ Len(reranked_results) > 0

ResultCells(q) ==
    reranked_results[CHOOSE j \in 1..Len(reranked_results) :
                        reranked_results[j].query_id = q].cells

\* C4: normal mode: a query of the union of the files' query ids that some
\* file lacks, or for which some file's row has no valid entry, gets a row of
\* '#' in all top_n columns; every query of the union gets a row.
C4_AntiBias ==
    (rrf_pc \in {"loop", "done"} /\ ~adaptive) =>
        /\ \A j \in 1..Len(reranked_results) :
              (\E i \in 1..Len(dfs) : NoValidEntry(dfs[i], reranked_results[j].query_id))
              => /\ Len(reranked_results[j].cells) = TopNCols
                 /\ \A c \in 1..TopNCols : reranked_results[j].cells[c] = "#"
        /\ rrf_pc = "done" =>
              \A i \in 1..Len(dfs) : \A r \in 1..Len(dfs[i].rows) :
                 \E j \in 1..Len(reranked_results) :
                    reranked_results[j].query_id = dfs[i].rows[r].query_id

\* C4 happens: query 2 has identifiers in the first file and a row without
\* any in the second, query 1 is missing from the second file.
C4_Witness ==
    /\ rrf_pc = "done" /\ ~adaptive
    /\ HasRow(dfs[1], 2) /\ ~NoValidEntry(dfs[1], 2)
    /\ HasRow(dfs[2], 2) /\ NoValidEntry(dfs[2], 2)
    /\ HasRow(dfs[1], 1) /\ ~HasRow(dfs[2], 1)
    /\ Len(reranked_results) = 2
    /\ \A c \in 1..TopNCols : ResultCells(2)[c] = "#" /\ ResultCells(1)[c] = "#"

\* C5: normal mode, a query with a valid entry in every file: the fused score
\* of an item is the sum over the files of 1/(k + rank) at its column ranks,
\* and the row is the items in descending fused score, cut to top_n (default:
\* the widest file) and padded with '#'.
C5_NormalFusion ==
    (rrf_pc \in {"loop", "done"} /\ ~adaptive) =>
        /\ \A j \in 1..Len(reranked_results) :
              LET q == reranked_results[j].query_id
                  Score(x) == RankSum(x, q, MaxCols)
              IN (\A i \in 1..Len(dfs) : ~NoValidEntry(dfs[i], q))
                 => RankedBy(reranked_results[j].cells, Score, TopNCols)
        /\ InLoopAfterQuery =>
              LET Score(x) == RankSum(x, LastQuery, MaxCols)
              IN (\A i \in 1..Len(dfs) : ~NoValidEntry(dfs[i], LastQuery))
                 => ScoresAre(article_scores, Score)

\* C5 happens: three items over two files, reordered by the fused score and
\* cut to top_n = 2 (c: 1/63 + 1/61, b: 2/62, a: 1/61).
C5_Witness ==
    /\ rrf_pc = "done" /\ ~adaptive /\ rrf_k = 60 /\ top_n = 2
    /\ HasRow(dfs[1], 2) /\ RowCells(dfs[1], 2) = [c \in 1..MaxCols |-> IF c = 1 THEN "a" ELSE IF c = 2 THEN "b" ELSE "c"]
    /\ HasRow(dfs[2], 2) /\ RowCells(dfs[2], 2) = <<"c", "b">>
    /\ ResultCells(2) = <<"c", "b">>

\* C6 as claimed: adaptive mode: the fused score of every item is made only of
\* the ranks 1..cap of each file's row, whatever the row holds (also with a
\* sentinel between valid entries).
C6_NothingBeyondCap ==
    (adaptive /\ InLoopAfterQuery) =>
        \A e \in 1..Len(article_scores) :
            article_scores[e].score = RankSum(article_scores[e].id, LastQuery, Cap(LastQuery))

\* C7: adaptive mode, every file's valid entries of the query leading: the
\* row is the items ranked by the sum over the files of 1/(k + rank) over the
\* ranks 1..cap, cap = min(2 * m, max count).
C7_AdaptiveFusion ==
    (rrf_pc \in {"loop", "done"} /\ adaptive) =>
        /\ \A j \in 1..Len(reranked_results) :
              LET q == reranked_results[j].query_id
                  Score(x) == RankSum(x, q, Cap(q))
              IN (\A i \in 1..Len(dfs) :
                     HasRow(dfs[i], q) => LeadingOnly(RowCells(dfs[i], q), dfs[i].cols))
                 => RankedBy(reranked_results[j].cells, Score, TopNCols)
        /\ InLoopAfterQuery =>
              LET Score(x) == RankSum(x, LastQuery, Cap(LastQuery))
              IN (\A i \in 1..Len(dfs) :
                     HasRow(dfs[i], LastQuery)
                     => LeadingOnly(RowCells(dfs[i], LastQuery), dfs[i].cols))
                 => ScoresAre(article_scores, Score)

\* C7 happens: the spec's scenario at the model's width: A = [a, b, c, ..],
\* B = [b, #], m = 1, cap = 2: c does not reach the output.
C7_Witness ==
    /\ rrf_pc = "done" /\ adaptive /\ top_n = 0
    /\ HasRow(dfs[1], 2) /\ \A c \in 1..MaxCols : RowCells(dfs[1], 2)[c] \in Items
    /\ RowCells(dfs[1], 2)[1] = "a" /\ RowCells(dfs[1], 2)[2] = "b" /\ RowCells(dfs[1], 2)[3] = "c"
    /\ HasRow(dfs[2], 2) /\ RowCells(dfs[2], 2) = <<"b", "#">>
    /\ Cap(2) = 2
    /\ ResultCells(2)[1] = "b" /\ ResultCells(2)[2] = "a"
    /\ \A c \in 3..MaxCols : ResultCells(2)[c] = "#"

(***************************************************************************)
(* Specification of the reranker on N copies of one file.                  *)
(***************************************************************************)
InitCopies ==
    /\ \E c \in SeqsOfLen(Cells, MaxCols), side \in BOOLEAN, n \in 1..MaxCopies :
          dfs = [i \in 1..n |->
                    [cols |-> MaxCols,
                     rows |-> <<[query_id |-> 2, cells |-> c]>>
                              \o (IF side THEN SideRow(MaxCols) ELSE <<>>)]]
    /\ rrf_k \in RrfKs
    /\ top_n \in {0, 2}
    /\ adaptive \in BOOLEAN
    /\ idx = 1
    /\ reranked_results = <<>>
    /\ skipped_queries = 0
    /\ article_scores = <<>>
    /\ rrf_pc = "loop"
    /\ BoostIdle
    /\ PipeIdle
    /\ SearchIdle
    /\ UploadIdle

SpecCopies == InitCopies /\ [][NextRrf]_vars

\* Pairwise distinct identifiers.
DistinctItems(cells, n) ==
    \A c, d \in 1..n : (c < d /\ cells[c] \in Items) => cells[c] # cells[d]

\* A row with every missing cell written as '#'.
SentinelFilled(cells, n) == [c \in 1..n |-> IF cells[c] \in Items THEN cells[c] ELSE "#"]

\* C9 as claimed: fusing N copies of a file returns, for every query, the
\* list of the file, for every k and every row content, in both modes (read
\* with top_n at its default and up to the spelling of a missing cell).
C9_CopiesSameList ==
    (rrf_pc = "done" /\ top_n = 0) =>
        \A r \in 1..Len(dfs[1].rows) :
            ResultCells(dfs[1].rows[r].query_id) =
                SentinelFilled(dfs[1].rows[r].cells, MaxCols)

\* C9 amended: with top_n at its default, a row of pairwise distinct valid
\* entries followed only by missing cells comes back unchanged, its missing
\* cells written as '#', in both modes and for every k >= 0.
C9_CopiesSameListWellFormed ==
    (rrf_pc = "done" /\ top_n = 0) =>
        \A r \in 1..Len(dfs[1].rows) :
            LET cells == dfs[1].rows[r].cells
            IN (LeadingOnly(cells, MaxCols) /\ DistinctItems(cells, MaxCols))
               => ResultCells(dfs[1].rows[r].query_id) = SentinelFilled(cells, MaxCols)

\* C9 happens: three copies of a file whose row of query 2 is two distinct
\* identifiers and then an empty cell, fused in adaptive mode.
C9_Witness ==
    /\ rrf_pc = "done" /\ top_n = 0 /\ adaptive /\ Len(dfs) = 3
    /\ RowCells(dfs[1], 2)[1] = "b" /\ RowCells(dfs[1], 2)[2] = "a"
    /\ \A c \in 3..MaxCols : RowCells(dfs[1], 2)[c] = NaN
    /\ ResultCells(2)[1] = "b" /\ ResultCells(2)[2] = "a"
    /\ \A c \in 3..MaxCols : ResultCells(2)[c] = "#"

(***************************************************************************)
(* Files.  A path is a sequence of tokens (no token is a concatenation of  *)
(* others, so two paths are the same string exactly when they are the same *)
(* sequence); a CSV file is its header and its rows of cell texts.         *)
(***************************************************************************)
\* os.path.exists
Exists(files, path) == \E f \in files : f.path = path

\* The content of the file at path.
FileContent(files, path) == (CHOOSE f \in files : f.path = path).content

\* open(path, 'w') / to_csv(path): create or replace the file.
WriteFile(files, path, content) ==
    {f \in files : f.path # path} \cup {[path |-> path, content |-> content]}

\* os.path.join(directory, name), directory not empty.
PathJoin(directory, name) == directory \o <<"/">> \o name

\* The texts pd.read_csv reads as NaN, among the cell texts of the model.
NaValues == {"", "NA"}

\* Cell texts of a stage-1 CSV file.
TextCells == {"a", "b", "", "#", "NA"}

\* pd.read_csv: the frame of a CSV file; an empty cell (or NA) becomes NaN.
read_csv(content) ==
    [header |-> content.header,
     rows |-> [r \in 1..Len(content.rows) |->
                 [query_id |-> content.rows[r].query_id,
                  cells |-> [c \in 1..Len(content.rows[r].cells) |->
                               IF content.rows[r].cells[c] \in NaValues THEN NaN
                               ELSE content.rows[r].cells[c]]]]]

\* df.fillna(value)
fillna(df, value) ==
    [header |-> df.header,
     rows |-> [r \in 1..Len(df.rows) |->
                 [query_id |-> df.rows[r].query_id,
                  cells |-> [c \in 1..Len(df.rows[r].cells) |->
                               IF df.rows[r].cells[c] = NaN THEN value
                               ELSE df.rows[r].cells[c]]]]]

\* df.to_csv(path, index=False): NaN is written as an empty cell.
to_csv(df) ==
    [header |-> df.header,
     rows |-> [r \in 1..Len(df.rows) |->
                 [query_id |-> df.rows[r].query_id,
                  cells |-> [c \in 1..Len(df.rows[r].cells) |->
                               IF df.rows[r].cells[c] = NaN THEN ""
                               ELSE df.rows[r].cells[c]]]]]

\* ['query_id'] + [f'{prefix}_{i}' for i in range(1, n + 1)]
Header(prefix, n) == <<<<"query_id">>>> \o [i \in 1..n |-> <<prefix, i>>]

(***************************************************************************)
(* search_pipeline.py: rrf_rerank_csvs with one file.                      *)
(***************************************************************************)
SingleFileName == <<"submission", "_", "single", "_", "file", ".csv">>

\* rrf_rerank_csvs, the branch "len(csv_files) == 1".
RrfRerankCsvsSingle ==
    /\ pipe_pc = "rrf"
    /\ Len(csv_files) = 1
    /\ IF output_dir # <<>>
       THEN IF Exists(fs, csv_files[1])
            THEN /\ fs' = WriteFile(fs, PathJoin(output_dir, SingleFileName),
                                    to_csv(fillna(read_csv(FileContent(fs, csv_files[1])), "#")))
                 /\ submission_csv_path' = PathJoin(output_dir, SingleFileName)
                 /\ pipe_pc' = "image"
            ELSE \* pd.read_csv raises FileNotFoundError
                 /\ pipe_pc' = "error"
                 /\ UNCHANGED <<fs, submission_csv_path>>
       ELSE /\ submission_csv_path' = csv_files[1]
            /\ pipe_pc' = "image"
            /\ UNCHANGED fs
    /\ UNCHANGED <<csv_files, output_dir, run_args, img_cfg, article_to_images, qdrant,
                   es_index, output_submission_csv, cascade_csv_path,
                   classified, family_search_results, family_results, final_results,
                   track2_csv_path>>
    /\ UNCHANGED pipe_frame

(***************************************************************************)
(* Specification of rrf_rerank_csvs on one stage-1 file of two queries.    *)
(***************************************************************************)
\* Number of article_id columns of the stage-1 files of the pipeline runs.
StageCols == 2

InputPath == <<"submission", "_", "x", ".csv">>

RunDir == <<"app_results", "/", "run">>

\* The stage-1 files of two queries.
StageFiles ==
    {[header |-> Header("article_id", StageCols),
      rows |-> <<[query_id |-> 1, cells |-> c1], [query_id |-> 2, cells |-> c2]>>] :
        c1 \in SeqsOfLen(TextCells, StageCols), c2 \in SeqsOfLen(TextCells, StageCols)}

InitSingle ==
    /\ \/ \E content \in StageFiles : fs = {[path |-> InputPath, content |-> content]}
       \/ fs = {}
    /\ csv_files = <<InputPath>>
    /\ output_dir \in {<<>>, RunDir}
    /\ submission_csv_path = <<>>
    /\ ImageIdle
    /\ pipe_pc = "rrf"
    /\ RrfIdle
    /\ BoostIdle
    /\ SearchIdle
    /\ UploadIdle

NextSingle == RrfRerankCsvsSingle

SpecSingle == InitSingle /\ [][NextSingle]_vars

\* The file with every missing cell (empty, NA) written as '#'.
MissingAsSentinel(content) ==
    [header |-> content.header,
     rows |-> [r \in 1..Len(content.rows) |->
                 [query_id |-> content.rows[r].query_id,
                  cells |-> [c \in 1..Len(content.rows[r].cells) |->
                               IF content.rows[r].cells[c] \in {"", "NA"} THEN "#"
                               ELSE content.rows[r].cells[c]]]]]

\* C8: rrf_rerank_csvs called with one existing CSV file returns the path of
\* a file whose content is the input with every missing cell replaced by
\* '#', with and without an output directory.
C8_SingleFileCopyFilled ==
    (pipe_pc = "image" /\ Len(csv_files) = 1 /\ Exists(fs, csv_files[1])) =>
        /\ Exists(fs, submission_csv_path)
        /\ FileContent(fs, submission_csv_path) =
               MissingAsSentinel(FileContent(fs, csv_files[1]))

(***************************************************************************)
(* search_pipeline.py: the configuration built by the constructor (legacy  *)
(* parameters).  Collection names are token sequences; weights are in       *)
(* tenths.  A Python dict is the sequence of its items in insertion order.  *)
(***************************************************************************)
\* key in d
DictHas(d, k) == \E i \in 1..Len(d) : d[i].key = k

\* d.get(k, default)
DictGet(d, k, default) ==
    IF DictHas(d, k) THEN d[CHOOSE i \in 1..Len(d) : d[i].key = k].value ELSE default

\* d[k] = v
DictPut(d, k, v) ==
    IF DictHas(d, k)
    THEN [i \in 1..Len(d) |-> IF d[i].key = k THEN [key |-> k, value |-> v] ELSE d[i]]
    ELSE Append(d, [key |-> k, value |-> v])

\* d.update(e)
RECURSIVE DictUpdate(_, _)
DictUpdate(d, e) ==
    IF Len(e) = 0 THEN d ELSE DictUpdate(DictPut(d, e[1].key, e[1].value), Tail(e))

\* seq[:n]
Take(seq, n) == SubSeq(seq, 1, Min(n, Len(seq)))

\* Concatenation of a sequence of sequences.
RECURSIVE Flatten(_)
Flatten(ss) == IF Len(ss) = 0 THEN <<>> ELSE ss[1] \o Flatten(Tail(ss))

\* name.startswith(prefix)
StartsWith(name, prefix) ==
    Len(name) >= Len(prefix) /\ SubSeq(name, 1, Len(prefix)) = prefix

\* name.replace(old, "")
RECURSIVE RemoveAll(_, _)
RemoveAll(name, old) ==
    IF Len(name) = 0 THEN <<>>
    ELSE IF StartsWith(name, old) THEN RemoveAll(SubSeq(name, Len(old) + 1, Len(name)), old)
    ELSE <<name[1]>> \o RemoveAll(Tail(name), old)

\* A loader that leaves the name as it is.
PrivateName_Unprefixed(name) == name

\* f"Private_{name}"
PrivateName(name) == <<"Private", "_">> \o name

\* self.database_mapping[primary_checkpoint]
DatabaseMapping(checkpoint) ==
    IF checkpoint = "OpenEvents_v1" THEN "Flickr30k" ELSE checkpoint

\* f"Query_{c}_{size}", f"Summary_{c}_{size}", f"Concise_{c}_{size}"
ViewNames(c, size) ==
    << <<"Query", "_", c, "_", size>>, <<"Summary", "_", c, "_", size>>,
       <<"Concise", "_", c, "_", size>> >>

\* The three weights of a family's views, in the order of ViewNames.
ViewWeights(names, weights) ==
    [i \in 1..3 |-> [key |-> names[i], value |-> weights[i]]]

\* _build_legacy_config: model_weights and model_families (<<>> stands for None).
build_legacy_config(a) ==
    LET c == a.primary_checkpoint
        Prefixed(name) == IF a.private_test_mode THEN PrivateName(name) ELSE name
        large_weights == <<a.primary_query_large_weight, a.primary_summary_large_weight,
                           a.primary_concise_large_weight>>
        base_weights == <<a.primary_query_base_weight, a.primary_summary_base_weight,
                          a.primary_concise_base_weight>>
        h14_weights == <<a.h14_query_weight, a.h14_summary_weight, a.h14_concise_weight>>
        base_model_weights ==
            ViewWeights(ViewNames(c, "Large"), large_weights)
            \o ViewWeights(ViewNames(c, "Base"), base_weights)
            \o (IF a.enable_h14_laion
                THEN ViewWeights(ViewNames("Laion", "H14"), h14_weights) ELSE <<>>)
        base_families ==
            << [key |-> <<c, "-", "Large">>,
                value |-> [query_collections |-> ViewNames(c, "Large"),
                           search_collection |-> <<"Database", "_", DatabaseMapping(c), "_", "Large">>,
                           family_weight |-> a.primary_large_family_weight]],
               [key |-> <<c, "-", "Base">>,
                value |-> [query_collections |-> ViewNames(c, "Base"),
                           search_collection |-> <<"Database", "_", DatabaseMapping(c), "_", "Base">>,
                           family_weight |-> a.primary_base_family_weight]] >>
            \o (IF a.enable_h14_laion
                THEN << [key |-> <<"H14", "-", "Laion">>,
                         value |-> [query_collections |-> ViewNames("Laion", "H14"),
                                    search_collection |-> <<"Database", "_", "Laion", "_", "H14">>,
                                    family_weight |-> a.h14_laion_family_weight]] >>
                ELSE <<>>)
    IN IF a.enable_multi_model
       THEN [model_weights |->
                [i \in 1..Len(base_model_weights) |->
                    [key |-> Prefixed(base_model_weights[i].key),
                     value |-> base_model_weights[i].value]],
             model_families |->
                [i \in 1..Len(base_families) |->
                    [key |-> base_families[i].key,
                     value |-> [query_collections |->
                                   [j \in 1..3 |->
                                       Prefixed(base_families[i].value.query_collections[j])],
                                search_collection |-> base_families[i].value.search_collection,
                                family_weight |-> base_families[i].value.family_weight]]]]
       ELSE [model_weights |->
                [i \in 1..3 |->
                    [key |-> Prefixed(ViewNames(c, "Large")[i]), value |-> large_weights[i]]],
             model_families |-> <<>>]

\* build_config_from_json: config_data is the JSON object as the sequence of
\* its (database name, [weight, query_collections]) items, query_collections
\* the sequence of its (view name, weight) items.
build_config_from_json(a) ==
    LET Prefixed(name) == IF a.private_test_mode THEN PrivateName(name) ELSE name
        NamedViews(db_config) ==
            [j \in 1..Len(db_config.query_collections) |->
                [key |-> Prefixed(db_config.query_collections[j].key),
                 value |-> db_config.query_collections[j].value]]
    IN [model_weights |->
            DictUpdate(<<>>, Flatten([i \in 1..Len(a.config_data) |->
                                         NamedViews(a.config_data[i].value)])),
        model_families |->
            DictUpdate(<<>>,
                [i \in 1..Len(a.config_data) |->
                    [key |-> RemoveAll(a.config_data[i].key, <<"Database", "_">>),
                     value |-> [query_collections |->
                                   [j \in 1..Len(NamedViews(a.config_data[i].value)) |->
                                       NamedViews(a.config_data[i].value)[j].key],
                                search_collection |-> a.config_data[i].key,
                                family_weight |-> a.config_data[i].value.weight]]])]

\* __init__: the attributes of the pipeline object that the image stage reads.
\* active_model_weights exists only in single-model mode, active_families
\* only in multi-model mode.  config_data is <<>> without a JSON config file;
\* with one the object is always in multi-model mode.
PipelineObject(a) ==
    LET built == IF a.config_data # <<>> THEN build_config_from_json(a)
                 ELSE build_legacy_config(a)
    IN [enable_multi_model |-> a.enable_multi_model \/ a.config_data # <<>>,
        private_test_mode |-> a.private_test_mode,
        primary_checkpoint |-> a.primary_checkpoint,
        use_voting |-> a.use_voting,
        rrf_k |-> a.rrf_k,
        multi_model_rrf_k |-> a.multi_model_rrf_k,
        model_weights |-> built.model_weights,
        model_families |-> built.model_families,
        has_active_model_weights |-> ~a.enable_multi_model,
        active_families |->
            IF a.enable_multi_model
            THEN SelectSeq(built.model_families, LAMBDA f : f.value.family_weight > 0)
            ELSE <<>>,
        active_model_weights |->
            IF a.enable_multi_model THEN <<>>
            ELSE SelectSeq(built.model_weights, LAMBDA w : w.value > 0)]

\* A constructor without the validation.
ConstructorSucceeds_Always(a) == TRUE

\* The validation at the end of __init__: it raises ValueError otherwise.
ConstructorSucceeds(a) ==
    IF a.enable_multi_model
    THEN Len(PipelineObject(a).active_families) > 0
    ELSE Len(PipelineObject(a).active_model_weights) > 0

\* get_query_collection_name
get_query_collection_name(cfg, base_name) ==
    (IF cfg.private_test_mode THEN <<"Private", "_">> ELSE <<"Public", "_">>) \o base_name

(***************************************************************************)
(* search_pipeline.py: the image stage.  A hit is [id, score]; similarity  *)
(* and boost are in millionths.                                             *)
(***************************************************************************)
\* Image ids of the database.
Images == {"i1", "i2", "i3"}

\* The longest list a vector search returns in the model.
MaxHits == 3

\* sorted_images[:50] of _aggregate_final_collections.
AggregateTop == 50

\* The number of consecutive article_id_<i> columns of a header, from i = 1
\* ("while f'article_id_{i}' in row").
RECURSIVE ArticleColumns(_, _)
ArticleColumns(header, i) ==
    IF \E h \in 1..Len(header) : header[h] = <<"article_id", i>>
    THEN 1 + ArticleColumns(header, i + 1) ELSE 0

\* The while loop of load_and_classify_queries over one row.
RECURSIVE ExtractArticleIds(_, _, _, _, _)
ExtractArticleIds(cells, n, i, max_articles, article_ids) ==
    IF i > n THEN article_ids
    ELSE LET article_id == Strip(cells[i])
             appended == IF article_id # "" /\ article_id # "#"
                         THEN Append(article_ids, article_id) ELSE article_ids
         IN IF Len(appended) >= max_articles THEN appended
            ELSE ExtractArticleIds(cells, n, i + 1, max_articles, appended)

\* load_and_classify_queries on the content of the stage-1 CSV file.
load_and_classify_queries(content, max_articles) ==
    LET n == ArticleColumns(content.header, 1)
        ids == [r \in 1..Len(content.rows) |->
                   [key |-> content.rows[r].query_id,
                    value |-> ExtractArticleIds(content.rows[r].cells, n, 1, max_articles, <<>>)]]
    IN [query_to_articles |-> DictUpdate(<<>>, ids),
        queries_with_articles |->
            [i \in 1..Len(SelectSeq(ids, LAMBDA e : Len(e.value) > 0)) |->
                SelectSeq(ids, LAMBDA e : Len(e.value) > 0)[i].key],
        queries_without_articles |->
            [i \in 1..Len(SelectSeq(ids, LAMBDA e : Len(e.value) = 0)) |->
                SelectSeq(ids, LAMBDA e : Len(e.value) = 0)[i].key]]

\* The view kind of a query collection name: Query, Summary or Concise.
ViewKind(name) == IF name[1] = "Private" \/ name[1] = "Public" THEN name[3] ELSE name[1]

\* A lookup that finds an embedding in every view.
get_query_embedding_AlwaysFound(index, collection_name, query_id) ==
    [found |-> TRUE, view |-> ViewKind(collection_name), query_id |-> query_id]

\* get_query_embedding: the query vector; found is FALSE for the None it
\* returns when the view holds no embedding of the query or the lookup fails.
get_query_embedding(index, collection_name, query_id) ==
    [found |-> ViewKind(collection_name) \notin index.no_embedding,
     view |-> ViewKind(collection_name), query_id |-> query_id]

\* client.search(collection, query_vector, limit): the hits of the database
\* in descending similarity, as the index returns them.
ClientSearch(index, search_collection, query_vector) ==
    IF index.table = 0 THEN <<>>
    ELSE IF search_collection[Len(search_collection)] = "Large"
    THEN CASE query_vector.view = "Query" ->
                << [id |-> "i1", score |-> 900000], [id |-> "i2", score |-> 600000],
                   [id |-> "i3", score |-> 400000] >>
           [] query_vector.view = "Summary" ->
                << [id |-> "i2", score |-> 900000], [id |-> "i1", score |-> 450000] >>
           [] OTHER -> << [id |-> "i3", score |-> 800000] >>
    ELSE IF query_vector.query_id = 1
    THEN << [id |-> "i3", score |-> 700000], [id |-> "i1", score |-> 600000] >>
    ELSE << [id |-> "i2", score |-> 500000] >>

\* A search without the filter on image_id.
Filtered_None(hits, candidate_image_ids) == hits

\* The hits that pass the filter image_id in candidate_image_ids.
Filtered(hits, candidate_image_ids) ==
    SelectSeq(hits, LAMBDA h : \E c \in 1..Len(candidate_image_ids) :
                                    candidate_image_ids[c] = h.id)

\* search_similar_images_with_ranking_boost; a client.search that raises
\* ends in the except branch, "return []".
search_similar_images_with_ranking_boost(index, bcfg, collection_name, query_vector, candidate_image_ids, article_rank_map, top_k) ==
    LET search_result == Take(Filtered(ClientSearch(index, collection_name, query_vector),
                                       candidate_image_ids), top_k)
        results == [h \in 1..Len(search_result) |->
                      [id |-> search_result[h].id,
                       score |-> search_result[h].score
                                 + calculate_sigmoid_boost(bcfg, search_result[h].score,
                                       DictGet(article_rank_map, search_result[h].id, NoRank))]]
    IN IF query_vector.view \in index.search_raises THEN <<>>
       ELSE SortedArticles(results)

\* search_similar_images_no_filter; a client.search that raises ends in the
\* except branch, "return []".
search_similar_images_no_filter(index, collection_name, query_vector, top_k) ==
    IF query_vector.view \in index.search_raises THEN <<>>
    ELSE Take(ClientSearch(index, collection_name, query_vector), top_k)

\* candidate_images of one query: the images of its articles, in rank order.
RECURSIVE CandidateImages(_, _, _)
CandidateImages(a2i, article_ids, rank) ==
    IF rank > Len(article_ids) THEN <<>>
    ELSE DictGet(a2i, article_ids[rank], <<>>) \o CandidateImages(a2i, article_ids, rank + 1)

\* article_rank_map[image_id] = rank, for the images of one article.
RECURSIVE RankImages(_, _, _)
RankImages(map, images, rank) ==
    IF Len(images) = 0 THEN map
    ELSE RankImages(DictPut(map, images[1], rank), Tail(images), rank)

\* article_rank_map of one query.
RECURSIVE ArticleRankMap(_, _, _, _)
ArticleRankMap(a2i, article_ids, rank, map) ==
    IF rank > Len(article_ids) THEN map
    ELSE ArticleRankMap(a2i, article_ids, rank + 1,
                        RankImages(map, DictGet(a2i, article_ids[rank], <<>>), rank))

\* "Remove duplicates while preserving order"
RECURSIVE UniqueCandidates(_, _)
UniqueCandidates(images, unique) ==
    IF Len(images) = 0 THEN unique
    ELSE UniqueCandidates(Tail(images),
            IF \E u \in 1..Len(unique) : unique[u] = images[1]
            THEN unique ELSE Append(unique, images[1]))

\* The query_collections of the active families that are in query_collections.
ActiveFamilyCollections(cfg, query_collections) ==
    Flatten([f \in 1..Len(cfg.active_families) |->
                SelectSeq(cfg.active_families[f].value.query_collections,
                          LAMBDA col : \E c \in 1..Len(query_collections) :
                                           query_collections[c] = col)])

\* active_collections of search_queries_with_articles
ActiveCollections(cfg, query_collections) ==
    IF cfg.has_active_model_weights
    THEN SelectSeq(query_collections, LAMBDA col : DictHas(cfg.active_model_weights, col))
    ELSE ActiveFamilyCollections(cfg, query_collections)

\* query_results of one query with articles: one entry per active collection.
RECURSIVE QueryResultsWithArticles(_, _, _, _, _, _, _, _, _)
QueryResultsWithArticles(index, bcfg, cols, query_id, search_collection, unique_candidates, article_rank_map, top_k, query_results) ==
    IF Len(cols) = 0 THEN query_results
    ELSE LET query_vector == get_query_embedding(index, cols[1], query_id)
             results == IF query_vector.found
                        THEN search_similar_images_with_ranking_boost(index, bcfg,
                                 search_collection, query_vector, unique_candidates,
                                 article_rank_map, top_k * 2)
                        ELSE <<>>
         IN QueryResultsWithArticles(index, bcfg, Tail(cols), query_id, search_collection,
                unique_candidates, article_rank_map, top_k,
                DictPut(query_results, cols[1], results))

\* search_queries_with_articles
RECURSIVE search_queries_with_articles(_, _, _, _, _, _, _, _, _, _)
search_queries_with_articles(cfg, index, bcfg, a2i, queries, query_to_articles, query_collections, search_collection, top_k, all_results) ==
    IF Len(queries) = 0 THEN all_results
    ELSE LET query_id == queries[1]
             article_ids == DictGet(query_to_articles, query_id, <<>>)
             candidate_images == CandidateImages(a2i, article_ids, 1)
             article_rank_map == ArticleRankMap(a2i, article_ids, 1, <<>>)
         IN search_queries_with_articles(cfg, index, bcfg, a2i, Tail(queries),
                query_to_articles, query_collections, search_collection, top_k,
                IF Len(candidate_images) = 0 THEN all_results
                ELSE DictPut(all_results, query_id,
                        QueryResultsWithArticles(index, bcfg,
                            ActiveCollections(cfg, query_collections), query_id,
                            search_collection, UniqueCandidates(candidate_images, <<>>),
                            article_rank_map, top_k, <<>>)))

\* optimized_collections of search_queries_without_articles
OptimizedCollections(cfg, query_collections) ==
    LET not_query == SelectSeq(query_collections,
                               LAMBDA col : ~StartsWith(col, <<"Query", "-">>))
        from_families == Flatten([f \in 1..Len(cfg.active_families) |->
                                     cfg.active_families[f].value.query_collections])
    IN IF cfg.has_active_model_weights
       THEN SelectSeq(not_query, LAMBDA col : DictHas(cfg.active_model_weights, col))
       ELSE SelectSeq(not_query, LAMBDA col : \E c \in 1..Len(from_families) :
                                                 from_families[c] = col)

\* query_results of one query without articles.
RECURSIVE QueryResultsDirect(_, _, _, _, _, _)
QueryResultsDirect(index, cols, query_id, search_collection, direct_search_top_k, query_results) ==
    IF Len(cols) = 0 THEN query_results
    ELSE LET query_vector == get_query_embedding(index, cols[1], query_id)
             results == IF query_vector.found
                        THEN search_similar_images_no_filter(index, search_collection,
                                 query_vector, direct_search_top_k)
                        ELSE <<>>
         IN QueryResultsDirect(index, Tail(cols), query_id, search_collection,
                direct_search_top_k, DictPut(query_results, cols[1], results))

\* search_queries_without_articles
search_queries_without_articles(cfg, index, queries, query_collections, search_collection, direct_search_top_k) ==
    IF Len(OptimizedCollections(cfg, query_collections)) = 0 THEN <<>>
    ELSE DictUpdate(<<>>,
            [i \in 1..Len(queries) |->
                [key |-> queries[i],
                 value |-> QueryResultsDirect(index,
                              OptimizedCollections(cfg, query_collections), queries[i],
                              search_collection, direct_search_top_k, <<>>)]])

\* A common denominator of all weight / (k + rank), rank in 1..MaxHits.
ImageScoreDen(k) == ProdUpTo(k, MaxHits)

\* active_weights of _aggregate_final_collections
RECURSIVE FamilyWeights(_, _, _)
FamilyWeights(cfg, cols, active_weights) ==
    IF Len(cols) = 0 THEN active_weights
    ELSE FamilyWeights(cfg, Tail(cols),
            IF DictHas(cfg.model_weights, cols[1])
            THEN DictPut(active_weights, cols[1], DictGet(cfg.model_weights, cols[1], 0))
            ELSE active_weights)

ActiveWeights(cfg) ==
    IF cfg.has_active_model_weights THEN cfg.active_model_weights
    ELSE FamilyWeights(cfg,
            Flatten([f \in 1..Len(cfg.active_families) |->
                        cfg.active_families[f].value.query_collections]), <<>>)

\* The loop "for rank, result in enumerate(results, 1)": each hit adds
\* weight (voting) or weight / (k + rank) to the score of its image.
RECURSIVE VoteResults(_, _, _, _, _, _)
VoteResults(ids, rank, weight, k, use_voting, image_scores) ==
    IF rank > Len(ids) THEN image_scores
    ELSE VoteResults(ids, rank + 1, weight, k, use_voting,
            AddScore(image_scores, ids[rank],
                     IF use_voting THEN weight
                     ELSE (weight * ImageScoreDen(k)) \div (k + rank)))

\* The same loop without the test "if weight <= 0.0: continue".
RECURSIVE CollectionScores_NoSkip(_, _, _, _, _)
CollectionScores_NoSkip(collection_results, active_weights, k, use_voting, image_scores) ==
    IF Len(collection_results) = 0 THEN image_scores
    ELSE LET weight == DictGet(active_weights, collection_results[1].key, 0)
             ids == [h \in 1..Len(collection_results[1].value) |->
                        collection_results[1].value[h].id]
         IN CollectionScores_NoSkip(Tail(collection_results), active_weights, k, use_voting,
                VoteResults(ids, 1, weight, k, use_voting, image_scores))

\* image_scores of one query over its collections.
RECURSIVE CollectionScores(_, _, _, _, _)
CollectionScores(collection_results, active_weights, k, use_voting, image_scores) ==
    IF Len(collection_results) = 0 THEN image_scores
    ELSE LET weight == DictGet(active_weights, collection_results[1].key, 0)
             ids == [h \in 1..Len(collection_results[1].value) |->
                        collection_results[1].value[h].id]
         IN CollectionScores(Tail(collection_results), active_weights, k, use_voting,
                IF weight <= 0 THEN image_scores
                ELSE VoteResults(ids, 1, weight, k, use_voting, image_scores))

\* [img_id for img_id, score in sorted_images[:n]]
TopIds(image_scores, n) ==
    [i \in 1..Min(n, Len(image_scores)) |-> SortedArticles(image_scores)[i].id]

\* _aggregate_final_collections (rrf_final_collections, voting_final_collections)
aggregate_final_collections(cfg, search_results, use_voting) ==
    [i \in 1..Len(search_results) |->
        [key |-> search_results[i].key,
         value |-> TopIds(CollectionScores(search_results[i].value, ActiveWeights(cfg),
                                           cfg.rrf_k, use_voting, <<>>),
                          AggregateTop)]]

\* The same loop without the test "if rank <= final_top_k".
RECURSIVE FamilyScores_NoCut(_, _, _, _, _, _)
FamilyScores_NoCut(families, query_id, final_top_k, k, use_voting, image_scores) ==
    IF Len(families) = 0 THEN image_scores
    ELSE FamilyScores_NoCut(Tail(families), query_id, final_top_k, k, use_voting,
            VoteResults(DictGet(families[1].value.results, query_id, <<>>),
                        1, families[1].value.weight, k, use_voting, image_scores))

\* image_scores of one query over the families; only the first final_top_k
\* images of a family's list count.
RECURSIVE FamilyScores(_, _, _, _, _, _)
FamilyScores(families, query_id, final_top_k, k, use_voting, image_scores) ==
    IF Len(families) = 0 THEN image_scores
    ELSE FamilyScores(Tail(families), query_id, final_top_k, k, use_voting,
            VoteResults(Take(DictGet(families[1].value.results, query_id, <<>>), final_top_k),
                        1, families[1].value.weight, k, use_voting, image_scores))

\* multi_model_rrf: a mapping from the query ids of all families to image ids.
multi_model_rrf(cfg, families, final_top_k, use_voting) ==
    LET all_query_ids == UNION {{families[f].value.results[i].key :
                                    i \in 1..Len(families[f].value.results)} :
                                f \in 1..Len(families)}
    IN [query_id \in all_query_ids |->
           TopIds(FamilyScores(families, query_id, final_top_k, cfg.multi_model_rrf_k,
                               use_voting, <<>>),
                  final_top_k)]

\* The dict of one aggregation, as a mapping.
AsMapping(d) == [k \in {d[i].key : i \in 1..Len(d)} |-> DictGet(d, k, <<>>)]

\* Number of image_id columns in the header of save_final_image_results:
\* range(1, 11).
HeaderImageCols == 10

\* Number of image cells in a row of save_final_image_results: range(50).
RowImageCells == 50

\* The content save_final_image_results writes: rows in ascending query id.
Track2Content(results) ==
    [header |-> Header("image_id", HeaderImageCols),
     rows |-> [r \in 1..Len(SortedList(DOMAIN results)) |->
                 [query_id |-> SortedList(DOMAIN results)[r],
                  cells |-> [i \in 1..RowImageCells |->
                               IF i <= Len(results[SortedList(DOMAIN results)[r]])
                               THEN results[SortedList(DOMAIN results)[r]][i]
                               ELSE "#"]]]]

\* f"track2_{filename_suffix}.csv" under output_dir
Track2Path(directory, filename_suffix) ==
    PathJoin(directory, <<"track2", "_">> \o filename_suffix \o <<".csv">>)

(***************************************************************************)
(* search_pipeline.py: the steps of a pipeline run as a state machine.     *)
(* pipe_pc: "start" -> "rrf" -> "image" -> ("families" ->) "save" -> "done", *)
(* or "error" when an exception ends the run.                               *)
(***************************************************************************)
\* The inputs of a run, which no step changes.
run_inputs == <<run_args, img_cfg, article_to_images, qdrant, es_index, family_search_results>>

\* What the text stage sets.
text_vars == <<output_submission_csv, cascade_csv_path>>

\* A text file whose content is not modelled (config.txt, a pickle).
OpaqueFile == [header |-> <<>>, rows |-> <<>>]

\* dir_name of create_output_directory; the name made of the clock is one token.
DirName(config_name) ==
    IF config_name # <<>> THEN config_name ELSE <<"pipeline", "_", "20260101_000000">>

\* main: the pipeline object is constructed from the arguments; the
\* constructor raises ValueError when nothing is active.
Construct ==
    /\ pipe_pc = "new"
    /\ IF ConstructorSucceeds(run_args.pipeline_args)
       THEN /\ img_cfg' = PipelineObject(run_args.pipeline_args)
            /\ pipe_pc' = "start"
       ELSE /\ pipe_pc' = "error"
            /\ UNCHANGED img_cfg
    /\ UNCHANGED <<fs, csv_files, output_dir, submission_csv_path, classified, family_results,
                   final_results, track2_csv_path, run_args, article_to_images, qdrant,
                   es_index, family_search_results>>
    /\ UNCHANGED text_vars
    /\ UNCHANGED pipe_frame

\* create_output_directory and save_config, at the start of main's
\* image-search-only mode and of run_integrated_cascade_pipeline.
CreateOutputDirectory ==
    /\ pipe_pc = "start"
    /\ output_dir' = PathJoin(<<"app_results">>, DirName(run_args.config_name))
    /\ fs' = WriteFile(fs, PathJoin(PathJoin(<<"app_results">>, DirName(run_args.config_name)),
                                   <<"config", ".txt">>), OpaqueFile)
    /\ pipe_pc' = IF run_args.mode = "image_search_only" THEN "rrf" ELSE "text"
    /\ UNCHANGED <<csv_files, submission_csv_path, classified, family_results,
                   final_results, track2_csv_path>>
    /\ UNCHANGED text_vars
    /\ UNCHANGED run_inputs
    /\ UNCHANGED pipe_frame

\* multi_model_image_search_pipeline up to the loop over the families.
MultiModelLoad ==
    /\ pipe_pc = "image"
    /\ img_cfg.enable_multi_model
    /\ IF Exists(fs, submission_csv_path)
       THEN /\ classified' = load_and_classify_queries(FileContent(fs, submission_csv_path),
                                                       run_args.max_articles_per_query)
            /\ pipe_pc' = "families"
       ELSE \* open(csv_path) raises FileNotFoundError
            /\ pipe_pc' = "error"
            /\ UNCHANGED classified
    /\ family_results' = <<>>
    /\ UNCHANGED <<fs, csv_files, output_dir, submission_csv_path, final_results,
                   track2_csv_path>>
    /\ UNCHANGED text_vars
    /\ UNCHANGED run_inputs
    /\ UNCHANGED pipe_frame

\* The name of the temp file of the n-th family.
TempFile(n, family_name) ==
    <<"/tmp", "/", <<"tmpa", "tmpb", "tmpc">>[n], "_">> \o family_name \o <<".pkl">>

\* The searches of one family's views and their aggregation, for the
\* pipeline object cfg.
FamilyFinalResultsFor(cfg, family_config) ==
    LET with == IF Len(classified.queries_with_articles) > 0
                THEN search_queries_with_articles(cfg, qdrant, boost_cfg,
                         article_to_images, classified.queries_with_articles,
                         classified.query_to_articles, family_config.query_collections,
                         family_config.search_collection, run_args.final_top_k, <<>>)
                ELSE <<>>
        without == IF Len(classified.queries_without_articles) > 0
                   THEN search_queries_without_articles(cfg, qdrant,
                            classified.queries_without_articles,
                            family_config.query_collections,
                            family_config.search_collection, run_args.direct_search_top_k)
                   ELSE <<>>
    IN aggregate_final_collections(cfg, DictUpdate(DictUpdate(<<>>, with), without),
                                   cfg.use_voting)

\* The same for the pipeline object of the run.
FamilyFinalResults(family_config) == FamilyFinalResultsFor(img_cfg, family_config)

\* One pass of "for family_name, family_config in active_families.items()".
SearchFamily ==
    /\ pipe_pc = "families"
    /\ Len(family_results) < Len(img_cfg.active_families)
    /\ LET n == Len(family_results) + 1
           family == img_cfg.active_families[n]
       IN /\ fs' = WriteFile(fs, TempFile(n, family.key), OpaqueFile)
          /\ family_results' = Append(family_results,
                 [key |-> family.key,
                  value |-> [results |-> FamilyFinalResults(family.value),
                             weight |-> family.value.family_weight,
                             temp_file |-> TempFile(n, family.key)]])
    /\ UNCHANGED <<csv_files, output_dir, submission_csv_path, classified, final_results,
                   track2_csv_path, pipe_pc>>
    /\ UNCHANGED text_vars
    /\ UNCHANGED run_inputs
    /\ UNCHANGED pipe_frame

\* A pass of the loop that ends the call with an exception: the temp file of
\* the family is created (delete=False) and writing the results to it raises
\* (OSError of pickle.dump).  Nothing in the call catches it.
SearchFamilyRaises ==
    /\ pipe_pc = "families"
    /\ Len(family_results) < Len(img_cfg.active_families)
    /\ LET n == Len(family_results) + 1
       IN fs' = WriteFile(fs, TempFile(n, img_cfg.active_families[n].key), OpaqueFile)
    /\ pipe_pc' = "error"
    /\ UNCHANGED <<csv_files, output_dir, submission_csv_path, classified, family_results,
                   final_results, track2_csv_path>>
    /\ UNCHANGED text_vars
    /\ UNCHANGED run_inputs
    /\ UNCHANGED pipe_frame

\* After the loop: multi_model_rrf, then the temp files are removed.
MultiModelFuse ==
    /\ pipe_pc = "families"
    /\ Len(family_results) = Len(img_cfg.active_families)
    /\ final_results' = multi_model_rrf(img_cfg, family_results, run_args.final_top_k,
                                        img_cfg.use_voting)
    /\ fs' = {f \in fs : \A i \in 1..Len(family_results) :
                            f.path # family_results[i].value.temp_file}
    /\ pipe_pc' = "save"
    /\ UNCHANGED <<csv_files, output_dir, submission_csv_path, classified, family_results,
                   track2_csv_path>>
    /\ UNCHANGED text_vars
    /\ UNCHANGED run_inputs
    /\ UNCHANGED pipe_frame

\* The default query_collections of image_search_pipeline, filtered to the
\* keys of active_model_weights.
DefaultQueryCollections(cfg) ==
    LET defaults == [i \in 1..3 |->
                        get_query_collection_name(cfg,
                            ViewNames(cfg.primary_checkpoint, "Large")[i])]
    IN IF cfg.has_active_model_weights
       THEN SelectSeq(defaults, LAMBDA col : DictHas(cfg.active_model_weights, col))
       ELSE defaults

\* The default search_collection of image_search_pipeline.
DefaultSearchCollection(cfg) ==
    <<"Database", "_", DatabaseMapping(cfg.primary_checkpoint), "_", "Large">>

\* image_search_pipeline with its default collections.
ImageSearchPipeline ==
    /\ pipe_pc = "image"
    /\ ~img_cfg.enable_multi_model
    /\ IF Len(DefaultQueryCollections(img_cfg)) = 0
       THEN \* "No active query collections available": return {}
            /\ final_results' = <<>>
            /\ pipe_pc' = "save"
            /\ UNCHANGED classified
       ELSE IF ~Exists(fs, submission_csv_path)
       THEN /\ pipe_pc' = "error"
            /\ UNCHANGED <<classified, final_results>>
       ELSE LET loaded == load_and_classify_queries(FileContent(fs, submission_csv_path),
                                                    run_args.max_articles_per_query)
                with == IF Len(loaded.queries_with_articles) > 0
                        THEN search_queries_with_articles(img_cfg, qdrant, boost_cfg,
                                 article_to_images, loaded.queries_with_articles,
                                 loaded.query_to_articles, DefaultQueryCollections(img_cfg),
                                 DefaultSearchCollection(img_cfg), run_args.final_top_k, <<>>)
                        ELSE <<>>
                without == IF Len(loaded.queries_without_articles) > 0
                           THEN search_queries_without_articles(img_cfg, qdrant,
                                    loaded.queries_without_articles,
                                    DefaultQueryCollections(img_cfg),
                                    DefaultSearchCollection(img_cfg),
                                    run_args.direct_search_top_k)
                           ELSE <<>>
            IN /\ classified' = loaded
               /\ final_results' = AsMapping(aggregate_final_collections(img_cfg,
                                       DictUpdate(DictUpdate(<<>>, with), without),
                                       img_cfg.use_voting))
               /\ pipe_pc' = "save"
    /\ UNCHANGED <<fs, csv_files, output_dir, submission_csv_path, family_results,
                   track2_csv_path>>
    /\ UNCHANGED text_vars
    /\ UNCHANGED run_inputs
    /\ UNCHANGED pipe_frame

\* filename_suffix of the track2 file.
FilenameSuffix ==
    IF run_args.config_name # <<>> THEN run_args.config_name
    ELSE IF run_args.mode = "image_search_only" THEN <<"image", "_", "search">>
    ELSE <<"pipeline">>

\* save_final_image_results(final_results, output_dir, filename_suffix)
SaveFinalImageResults ==
    /\ pipe_pc = "save"
    /\ LET output_path == IF output_dir # <<>>
                          THEN Track2Path(output_dir, FilenameSuffix)
                          ELSE <<"ReRank", "/", "e2e", "_", "final", "_", "images", "_",
                                 "20260101_000000", ".csv">>
       IN /\ fs' = WriteFile(fs, output_path, Track2Content(final_results))
          /\ track2_csv_path' = output_path
    /\ pipe_pc' = "done"
    /\ UNCHANGED <<csv_files, output_dir, submission_csv_path, classified, family_results,
                   final_results>>
    /\ UNCHANGED text_vars
    /\ UNCHANGED run_inputs
    /\ UNCHANGED pipe_frame

(***************************************************************************)
(* Specification of main's image-search-only mode on one stage-1 file of   *)
(* two queries: create_output_directory, rrf_rerank_csvs, the image stage, *)
(* save_final_image_results.                                                *)
(***************************************************************************)
\* Constructor arguments: the weights of the views and of the families.
WeightProfiles ==
    { \* the defaults of the constructor
      [enable_h14_laion |-> TRUE,
       primary_query_large_weight |-> 10, primary_summary_large_weight |-> 10,
       primary_concise_large_weight |-> 12,
       primary_query_base_weight |-> 9, primary_summary_base_weight |-> 9,
       primary_concise_base_weight |-> 11,
       h14_query_weight |-> 8, h14_summary_weight |-> 8, h14_concise_weight |-> 10,
       primary_large_family_weight |-> 10, primary_base_family_weight |-> 9,
       h14_laion_family_weight |-> 8],
      \* the defaults of the command line
      [enable_h14_laion |-> FALSE,
       primary_query_large_weight |-> 10, primary_summary_large_weight |-> 0,
       primary_concise_large_weight |-> 0,
       primary_query_base_weight |-> 10, primary_summary_base_weight |-> 0,
       primary_concise_base_weight |-> 0,
       h14_query_weight |-> 10, h14_summary_weight |-> 0, h14_concise_weight |-> 0,
       primary_large_family_weight |-> 10, primary_base_family_weight |-> 10,
       h14_laion_family_weight |-> 10],
      \* the Large family switched off
      [enable_h14_laion |-> FALSE,
       primary_query_large_weight |-> 0, primary_summary_large_weight |-> 10,
       primary_concise_large_weight |-> 12,
       primary_query_base_weight |-> 9, primary_summary_base_weight |-> 9,
       primary_concise_base_weight |-> 11,
       h14_query_weight |-> 8, h14_summary_weight |-> 8, h14_concise_weight |-> 10,
       primary_large_family_weight |-> 0, primary_base_family_weight |-> 9,
       h14_laion_family_weight |-> 8],
      \* every family on, every view off
      [enable_h14_laion |-> TRUE,
       primary_query_large_weight |-> 0, primary_summary_large_weight |-> 0,
       primary_concise_large_weight |-> 0,
       primary_query_base_weight |-> 0, primary_summary_base_weight |-> 0,
       primary_concise_base_weight |-> 0,
       h14_query_weight |-> 0, h14_summary_weight |-> 0, h14_concise_weight |-> 0,
       primary_large_family_weight |-> 10, primary_base_family_weight |-> 10,
       h14_laion_family_weight |-> 10],
      \* no positive weight at all
      [enable_h14_laion |-> TRUE,
       primary_query_large_weight |-> 0, primary_summary_large_weight |-> 0,
       primary_concise_large_weight |-> 0,
       primary_query_base_weight |-> 0, primary_summary_base_weight |-> 0,
       primary_concise_base_weight |-> 0,
       h14_query_weight |-> 0, h14_summary_weight |-> 0, h14_concise_weight |-> 0,
       primary_large_family_weight |-> 0, primary_base_family_weight |-> 0,
       h14_laion_family_weight |-> 0] }

\* The constructor arguments of the model without a JSON config file.
ConstructorArgs ==
    {[primary_checkpoint |-> "Initialized", config_data |-> <<>>,
      enable_multi_model |-> multi, private_test_mode |-> private, use_voting |-> voting,
      rrf_k |-> 60, multi_model_rrf_k |-> 50,
      enable_h14_laion |-> w.enable_h14_laion,
      primary_query_large_weight |-> w.primary_query_large_weight,
      primary_summary_large_weight |-> w.primary_summary_large_weight,
      primary_concise_large_weight |-> w.primary_concise_large_weight,
      primary_query_base_weight |-> w.primary_query_base_weight,
      primary_summary_base_weight |-> w.primary_summary_base_weight,
      primary_concise_base_weight |-> w.primary_concise_base_weight,
      h14_query_weight |-> w.h14_query_weight,
      h14_summary_weight |-> w.h14_summary_weight,
      h14_concise_weight |-> w.h14_concise_weight,
      primary_large_family_weight |-> w.primary_large_family_weight,
      primary_base_family_weight |-> w.primary_base_family_weight,
      h14_laion_family_weight |-> w.h14_laion_family_weight] :
        multi \in BOOLEAN, private \in BOOLEAN, voting \in BOOLEAN, w \in WeightProfiles}

\* A database entry of a JSON config file.
JsonDatabase(size, weight, views) ==
    [key |-> <<"Database", "_", "Initialized", "_", size>>,
     value |-> [weight |-> weight,
                query_collections |->
                    [i \in 1..Len(views) |->
                        [key |-> <<views[i][1], "_", "Initialized", "_", size>>,
                         value |-> views[i][2]]]]]

\* JSON config files: a view of weight 0 among positive ones; a family whose
\* only view has weight 0 next to a family of weight 0; no positive family
\* weight; a family whose views all have weight 0 next to a sound one.
JsonConfigs ==
    { << JsonDatabase("Large", 10, << <<"Query", 10>>, <<"Summary", 0>>, <<"Concise", 12>> >>),
         JsonDatabase("Base", 9, << <<"Query", 9>> >>) >>,
      << JsonDatabase("Large", 10, << <<"Summary", 0>> >>),
         JsonDatabase("Base", 0, << <<"Query", 9>> >>) >>,
      << JsonDatabase("Large", 0, << <<"Query", 10>> >>),
         JsonDatabase("Base", 0, << <<"Summary", 9>> >>) >>,
      << JsonDatabase("Large", 10, << <<"Query", 0>>, <<"Summary", 0>> >>),
         JsonDatabase("Base", 9, << <<"Concise", 11>> >>) >> }

\* The constructor arguments with a JSON config file: main passes
\* enable_multi_model = True with one.
JsonConstructorArgs ==
    {[primary_checkpoint |-> "Initialized", config_data |-> config,
      enable_multi_model |-> TRUE, private_test_mode |-> private, use_voting |-> voting,
      rrf_k |-> 60, multi_model_rrf_k |-> 50] :
        config \in JsonConfigs, private \in BOOLEAN, voting \in BOOLEAN}

\* The article-to-images mapping: article c has no entry, article d no image.
ArticleImages ==
    << [key |-> "a", value |-> <<"i1", "i2">>],
       [key |-> "b", value |-> <<"i2", "i3">>],
       [key |-> "d", value |-> <<>>] >>

\* The states of the vector index.
Indexes ==
    {[table |-> 1, no_embedding |-> {}, search_raises |-> {}],
     [table |-> 1, no_embedding |-> {"Summary"}, search_raises |-> {}],
     [table |-> 1, no_embedding |-> {"Summary"}, search_raises |-> {"Query"}],
     [table |-> 1, no_embedding |-> {"Query", "Summary", "Concise"}, search_raises |-> {}],
     [table |-> 0, no_embedding |-> {}, search_raises |-> {}]}

\* cells, cut or padded with '#' to StageCols cells.
StageRow(cells) ==
    [i \in 1..StageCols |-> IF i <= Len(cells) THEN cells[i] ELSE "#"]

\* The rows of a query in the stage-1 file handed to the image stage.
ImageStageRows ==
    {StageRow(<<"a", "b">>), StageRow(<<"b", "a">>), StageRow(<<"c", "#">>),
     StageRow(<<"#", "#">>), StageRow(<<"", "a">>), StageRow(<<"d", "c">>)}

ImageStageFiles ==
    {[header |-> Header("article_id", StageCols),
      rows |-> <<[query_id |-> 1, cells |-> c1], [query_id |-> 2, cells |-> c2]>>] :
        c1 \in ImageStageRows, c2 \in ImageStageRows}

InitImage ==
    /\ \/ \E content \in ImageStageFiles : fs = {[path |-> InputPath, content |-> content]}
       \/ fs = {}
    /\ csv_files = <<InputPath>>
    /\ output_dir = <<>>
    /\ submission_csv_path = <<>>
    /\ run_args \in [mode : {"image_search_only"}, config_name : {<<>>, <<"run">>},
                     max_articles_per_query : {1, 30}, direct_search_top_k : {30},
                     final_top_k : {1, 20},
                     pipeline_args : ConstructorArgs \cup JsonConstructorArgs]
    /\ img_cfg = <<>>
    /\ article_to_images = ArticleImages
    /\ qdrant \in Indexes
    /\ es_index = <<>>
    /\ output_submission_csv = <<>>
    /\ cascade_csv_path = <<>>
    /\ classified = <<>>
    /\ family_search_results = <<>>
    /\ family_results = <<>>
    /\ final_results = <<>>
    /\ track2_csv_path = <<>>
    /\ pipe_pc = "new"
    /\ RrfIdle
    /\ BoostIdle
    /\ SearchIdle
    /\ UploadIdle

NextImage ==
    \/ Construct
    \/ CreateOutputDirectory
    \/ RrfRerankCsvsSingle
    \/ MultiModelLoad
    \/ SearchFamily
    \/ SearchFamilyRaises
    \/ MultiModelFuse
    \/ ImageSearchPipeline
    \/ SaveFinalImageResults

SpecImage == InitImage /\ [][NextImage]_vars

\* The query ids of the rows of a CSV file.
RowQueryIds(content) == {content.rows[r].query_id : r \in 1..Len(content.rows)}

\* C1: every query id of the stage-1 CSV given to the image stage is the
\* query id of a row of the stage-2 CSV.
C1_EveryQueryHasRow ==
    pipe_pc = "done" =>
        RowQueryIds(FileContent(fs, submission_csv_path))
            \subseteq RowQueryIds(FileContent(fs, track2_csv_path))

\* C2: in the stage-2 CSV every data row has exactly as many image cells as
\* the header has image_id columns.
C2_RowsMatchHeader ==
    pipe_pc = "done" =>
        LET content == FileContent(fs, track2_csv_path)
        IN /\ \E L \in 0..(Len(content.header) - 1) : content.header = Header("image_id", L)
           /\ \A r \in 1..Len(content.rows) :
                 Len(content.rows[r].cells) = Len(content.header) - 1

(***************************************************************************)
(* entity_search_system.py: search_all_queries_and_save, and               *)
(* search_pipeline.py: text_search_pipeline.                                *)
(***************************************************************************)
\* f"submission_{postfix}.csv"
SubmissionName(postfix) == <<"submission", "_">> \o postfix \o <<".csv">>

\* The path search_all_queries_and_save writes to: its argument
\* output_submission_csv is replaced in both branches of "if postfix".
OutputSubmissionCsv(postfix) ==
    IF postfix # <<>> THEN SubmissionName(postfix)
    ELSE SubmissionName(<<"20260101_000000">>)

\* all_queries after the max_queries cut (0 stands for None).
QueriesToProcess(index, max_queries) ==
    IF max_queries # 0 /\ max_queries < Len(index.queries)
    THEN Take(index.queries, max_queries) ELSE index.queries

\* submission_row of one query: the article ids found, then "".
SubmissionRow(index, query_id, top_k) ==
    [query_id |-> query_id,
     cells |-> [j \in 1..top_k |->
                  IF j <= Len(Take(index.hits[query_id], top_k))
                  THEN index.hits[query_id][j] ELSE ""]]

\* search_all_queries_and_save with auto_fill = False.
auto_fill_empty_cells_Off(df, fill_value) == df

\* auto_fill_empty_cells: fillna(fill_value), then replace('', fill_value).
auto_fill_empty_cells(df, fill_value) ==
    [header |-> df.header,
     rows |-> [r \in 1..Len(df.rows) |->
                 [query_id |-> df.rows[r].query_id,
                  cells |-> [c \in 1..Len(df.rows[r].cells) |->
                               IF df.rows[r].cells[c] = ""
                               THEN fill_value ELSE fillna(df, fill_value).rows[r].cells[c]]]]]

\* The CSV content search_all_queries_and_save saves (auto_fill = True).
SubmissionContent(index, top_k, max_queries) ==
    to_csv(auto_fill_empty_cells(
        [header |-> Header("article_id", top_k),
         rows |-> [i \in 1..Len(QueriesToProcess(index, max_queries)) |->
                     SubmissionRow(index, QueriesToProcess(index, max_queries)[i], top_k)]],
        "#"))

\* text_search_pipeline(output_dir, "cascade", text_top_k, max_queries) as
\* run_integrated_cascade_pipeline calls it (output_dir is set), with the
\* search_all_queries_and_save it runs, and the choice that follows it
\* between RRF with the additional files and the cascade file alone.
TextSearchPipeline ==
    /\ pipe_pc = "text"
    /\ LET filename_suffix == <<"cascade">>
           csv_path == PathJoin(output_dir, SubmissionName(filename_suffix))
           json_path == PathJoin(output_dir, <<"stage", "_", "1", "_">> \o filename_suffix
                                             \o <<".json">>)
           written == OutputSubmissionCsv(<<"_">> \o filename_suffix)
           saved == IF es_index.write_fails THEN fs
                    ELSE WriteFile(fs, written,
                             SubmissionContent(es_index, run_args.text_top_k,
                                               run_args.max_queries))
       IN /\ output_submission_csv' = written
          /\ IF Len(es_index.queries) = 0
             THEN \* search_all_queries_and_save returns None: results.get raises
                  /\ pipe_pc' = "error"
                  /\ UNCHANGED <<fs, cascade_csv_path, csv_files, submission_csv_path>>
             ELSE /\ fs' = WriteFile(saved, json_path, OpaqueFile)
                  /\ cascade_csv_path' = csv_path
                  /\ IF Len(run_args.additional_csv_files) > 0
                     THEN /\ csv_files' = <<csv_path>> \o run_args.additional_csv_files
                          /\ pipe_pc' = "rrf"
                          /\ UNCHANGED submission_csv_path
                     ELSE /\ submission_csv_path' = csv_path
                          /\ pipe_pc' = "image"
                          /\ UNCHANGED csv_files
    /\ UNCHANGED <<output_dir, classified, family_results, final_results, track2_csv_path>>
    /\ UNCHANGED run_inputs
    /\ UNCHANGED pipe_frame

(***************************************************************************)
(* search_pipeline.py: rrf_rerank_csvs with two or more files.             *)
(***************************************************************************)
\* os.path.basename
RECURSIVE Basename(_)
Basename(path) ==
    IF \E i \in 1..Len(path) : path[i] = "/" THEN Basename(Tail(path)) ELSE path

\* name.endswith(suffix)
EndsWith(name, suffix) ==
    Len(name) >= Len(suffix)
    /\ SubSeq(name, Len(name) - Len(suffix) + 1, Len(name)) = suffix

\* The postfix generated from a basename.  The names of the model are made
\* of letters, digits, '.', '_' and '-' only, which the cleaning keeps.
GeneratePostfix(basename) ==
    IF StartsWith(basename, <<"submission", "_">>) /\ EndsWith(basename, <<".csv">>)
    THEN RemoveAll(RemoveAll(basename, <<"submission", "_">>), <<".csv">>)
    ELSE RemoveAll(RemoveAll(basename, <<".csv">>), <<"submission", "_">>)

\* "Ensure unique postfix": original_1, original_2, ...
RECURSIVE UniquePostfix(_, _, _, _)
UniquePostfix(postfix, original_postfix, counter, postfixes) ==
    IF \E i \in 1..Len(postfixes) : postfixes[i] = postfix
    THEN UniquePostfix(original_postfix \o <<"_", <<"1", "2", "3">>[counter]>>,
                       original_postfix, counter + 1, postfixes)
    ELSE postfix

\* The loop that copies the existing files to submission_<postfix>.csv in
\* the working directory.  shutil.copy2 of a file onto itself raises, and
\* the file keeps its postfix without being a copy.
RECURSIVE CopyFiles(_, _)
CopyFiles(files, st) ==
    IF Len(files) = 0 THEN st
    ELSE IF ~Exists(st.fs, files[1]) THEN CopyFiles(Tail(files), st)
    ELSE LET generated == GeneratePostfix(Basename(files[1]))
             postfix == UniquePostfix(generated, generated, 1, st.postfixes)
             target_file == SubmissionName(postfix)
         IN CopyFiles(Tail(files),
                IF files[1] = target_file
                THEN [st EXCEPT !.postfixes = Append(@, postfix)]
                ELSE [postfixes |-> Append(st.postfixes, postfix),
                      copied_files |-> Append(st.copied_files, target_file),
                      fs |-> WriteFile(st.fs, target_file, FileContent(st.fs, files[1]))])

\* load_submission_file: the frame of submission_<postfix>.csv with the
\* number of its article_id_* / image_id_* columns.
load_submission_file(files, postfix) ==
    LET content == FileContent(files, SubmissionName(postfix))
    IN [cols |-> Cardinality({h \in 1..Len(content.header) :
                                 content.header[h][1] \in {"article_id", "image_id"}}),
        rows |-> read_csv(content).rows]

\* The frame perform_rrf_reranking(_adaptive)(postfixes, k) returns.
RerankedFrame(frames, k, adaptive_mode) ==
    [header |-> Header("article_id", OutputSize(frames, 0)),
     rows |-> SortValues([i \in 1..Len(AllQueryIds(frames)) |->
                            IF adaptive_mode
                            THEN AdaptiveRow(frames, AllQueryIds(frames)[i], k, 0)
                            ELSE NormalRow(frames, AllQueryIds(frames)[i], k, 0)])]

\* rrf_csv_path
RrfCsvPath(directory, mode_suffix) ==
    IF directory # <<>>
    THEN PathJoin(directory, <<"submission", "_", "rrf", "_", mode_suffix, ".csv">>)
    ELSE <<"ReRank", "/", "e2e", "_", "rrf", "_", mode_suffix, "_", "20260101_000000", ".csv">>

\* rrf_rerank_csvs, the branch of two or more files.
RrfRerankCsvsMulti ==
    /\ pipe_pc = "rrf"
    /\ Len(csv_files) > 1
    /\ LET copied == CopyFiles(csv_files, [postfixes |-> <<>>, copied_files |-> <<>>, fs |-> fs])
           frames == [i \in 1..Len(copied.postfixes) |->
                         load_submission_file(copied.fs, copied.postfixes[i])]
           cleaned == {f \in copied.fs : \A i \in 1..Len(copied.copied_files) :
                                            f.path # copied.copied_files[i]}
           rrf_csv_path == RrfCsvPath(output_dir,
                               IF run_args.adaptive_rrf THEN "adaptive" ELSE "normal")
       IN IF Len(copied.postfixes) = 0
          THEN \* raise ValueError("No valid CSV files found")
               /\ pipe_pc' = "error"
               /\ UNCHANGED <<fs, submission_csv_path>>
          ELSE IF Len(AllQueryIds(frames)) = 0
          THEN \* no query in any file: the summary divides by zero; the
               \* finally clause has removed the copies
               /\ pipe_pc' = "error"
               /\ fs' = cleaned
               /\ UNCHANGED submission_csv_path
          ELSE /\ fs' = WriteFile(cleaned, rrf_csv_path,
                            to_csv(fillna(RerankedFrame(frames, img_cfg.rrf_k,
                                                        run_args.adaptive_rrf), "#")))
               /\ submission_csv_path' = rrf_csv_path
               /\ pipe_pc' = "image"
    /\ UNCHANGED <<csv_files, output_dir, classified, family_results, final_results,
                   track2_csv_path>>
    /\ UNCHANGED text_vars
    /\ UNCHANGED run_inputs
    /\ UNCHANGED pipe_frame

(***************************************************************************)
(* Specification of run_integrated_cascade_pipeline: output directory,     *)
(* text search, RRF with the additional files if any, the image stage,      *)
(* save_final_image_results.                                                *)
(***************************************************************************)
\* An additional file in the working directory, one elsewhere, a missing one.
AuxPath == <<"runs", "/", "submission", "_", "y", ".csv">>

\* A file of the working directory that has the basename of AuxPath and is
\* not given to the run.
LocalPath == <<"submission", "_", "y", ".csv">>

MissingPath == <<"runs", "/", "submission", "_", "z", ".csv">>

\* Where text_search_pipeline says the stage-1 file of the run "run" is.
StalePath == PathJoin(RunDir, SubmissionName(<<"cascade">>))

\* A stage-1 file with the given rows of queries 1 and 2.
StageFile(c1, c2) ==
    [header |-> Header("article_id", StageCols),
     rows |-> <<[query_id |-> 1, cells |-> StageRow(c1)],
                [query_id |-> 2, cells |-> StageRow(c2)]>>]

\* The files on disk before the run: the additional files, a file of the
\* working directory, and possibly a file left at StalePath by something
\* else than this run.
FilesBefore(stale) ==
    {[path |-> InputPath, content |-> StageFile(<<"a", "b">>, <<"b", "#">>)],
     [path |-> AuxPath, content |-> StageFile(<<"b", "a">>, <<"c", "">>)],
     [path |-> LocalPath, content |-> StageFile(<<"c">>, <<"a">>)]}
    \cup (IF stale THEN {[path |-> StalePath, content |-> StageFile(<<"d">>, <<"d">>)]}
          ELSE {})

InitCascade ==
    /\ \E stale \in BOOLEAN : fs = FilesBefore(stale)
    /\ csv_files = <<>>
    /\ output_dir = <<>>
    /\ submission_csv_path = <<>>
    /\ run_args \in [mode : {"integrated"}, config_name : {<<>>, <<"run">>},
                     text_top_k : {StageCols}, max_queries : {0, 1},
                     additional_csv_files : {<<>>, <<InputPath>>, <<InputPath, AuxPath>>,
                                             <<MissingPath>>},
                     adaptive_rrf : BOOLEAN,
                     max_articles_per_query : {15}, direct_search_top_k : {20},
                     final_top_k : {15}]
    /\ \E a \in ConstructorArgs :
          /\ a.private_test_mode /\ ~a.use_voting /\ a.enable_h14_laion
          /\ img_cfg = PipelineObject(a)
    /\ article_to_images = ArticleImages
    /\ qdrant = [table |-> 1, no_embedding |-> {}, search_raises |-> {}]
    /\ es_index \in [queries : {<<>>, <<1>>, <<1, 2>>},
                     hits : [QueryIds -> {<<>>, <<"b">>, <<"b", "a", "c">>}],
                     write_fails : BOOLEAN]
    /\ output_submission_csv = <<>>
    /\ cascade_csv_path = <<>>
    /\ classified = <<>>
    /\ family_search_results = <<>>
    /\ family_results = <<>>
    /\ final_results = <<>>
    /\ track2_csv_path = <<>>
    /\ pipe_pc = "start"
    /\ RrfIdle
    /\ BoostIdle
    /\ SearchIdle
    /\ UploadIdle

NextCascade ==
    \/ CreateOutputDirectory
    \/ TextSearchPipeline
    \/ RrfRerankCsvsMulti
    \/ MultiModelLoad
    \/ SearchFamily
    \/ SearchFamilyRaises
    \/ MultiModelFuse
    \/ ImageSearchPipeline
    \/ SaveFinalImageResults

SpecCascade == InitCascade /\ [][NextCascade]_vars

\* C3: in run_integrated_cascade_pipeline the stage-1 CSV path that
\* text_search_pipeline returned is the path that search_all_queries_and_save
\* wrote in this run.
C3_ReturnedPathIsWritten ==
    (run_args # <<>> /\ run_args.mode = "integrated" /\ cascade_csv_path # <<>>) =>
        cascade_csv_path = output_submission_csv

(***************************************************************************)
(* The image stage: which view collections the direct search reads.         *)
(***************************************************************************)
\* The (query_collections, search_collection) pairs the image stage searches
\* with: one per active family, or the defaults of image_search_pipeline.
StageCollections ==
    IF img_cfg.enable_multi_model
    THEN {img_cfg.active_families[f].value : f \in 1..Len(img_cfg.active_families)}
    ELSE {[query_collections |-> DefaultQueryCollections(img_cfg),
           search_collection |-> DefaultSearchCollection(img_cfg)]}

\* The view collections whose embedding search_queries_without_articles
\* fetched and searched with, for the queries without articles of the run.
DirectSearched(family_config) ==
    LET all_results == search_queries_without_articles(img_cfg, qdrant,
                           classified.queries_without_articles,
                           family_config.query_collections,
                           family_config.search_collection,
                           run_args.direct_search_top_k)
    IN UNION {{all_results[q].value[c].key : c \in 1..Len(all_results[q].value)} :
                 q \in 1..Len(all_results)}

\* C11: for the queries without stage-1 articles no raw-query view
\* collection (Query_<model>, Private_Query_<model>) is searched; only the
\* summary and concise views are.
C11_DirectSearchSkipsQueryView ==
    (pipe_pc \in {"families", "save", "done"} /\ classified # <<>>) =>
        \A family_config \in StageCollections :
            \A col \in DirectSearched(family_config) : ViewKind(col) # "Query"

(***************************************************************************)
(* The image stage: the two branches and the candidate filter.              *)
(***************************************************************************)
\* The stage-1 articles kept for a row: its first max_articles cells that,
\* stripped, are neither empty nor the sentinel.
KeptArticles(cells, max_articles) ==
    {Strip(cells[p]) : p \in {i \in 1..Len(cells) :
        /\ Strip(cells[i]) \notin {"", "#"}
        /\ Cardinality({j \in 1..i : Strip(cells[j]) \notin {"", "#"}}) <= max_articles}}

\* The images article_to_images gives for a set of articles.
ImagesOfArticles(articles) ==
    UNION {{DictGet(article_to_images, a, <<>>)[i] :
               i \in 1..Len(DictGet(article_to_images, a, <<>>))} : a \in articles}

\* The cells of the row of a query in the stage-1 file of the image stage.
StageCells(query_id) ==
    LET rows == FileContent(fs, submission_csv_path).rows
    IN rows[CHOOSE r \in 1..Len(rows) : rows[r].query_id = query_id].cells

ArgViewWeights(a) ==
    IF a.config_data # <<>>
    THEN UNION {{a.config_data[i].value.query_collections[j].value :
                    j \in 1..Len(a.config_data[i].value.query_collections)} :
                i \in 1..Len(a.config_data)}
    ELSE {a.primary_query_large_weight, a.primary_summary_large_weight,
          a.primary_concise_large_weight}
         \cup (IF a.enable_multi_model
               THEN {a.primary_query_base_weight, a.primary_summary_base_weight,
                     a.primary_concise_base_weight}
                    \cup (IF a.enable_h14_laion
                          THEN {a.h14_query_weight, a.h14_summary_weight, a.h14_concise_weight}
                          ELSE {})
               ELSE {})

ArgFamilyWeights(a) ==
    IF a.config_data # <<>>
    THEN {a.config_data[i].value.weight : i \in 1..Len(a.config_data)}
    ELSE IF a.enable_multi_model
    THEN {a.primary_large_family_weight, a.primary_base_family_weight}
         \cup (IF a.enable_h14_laion THEN {a.h14_laion_family_weight} ELSE {})
    ELSE {}

\* No weight of the configuration is positive.
NoPositiveWeight(a) == \A w \in ArgViewWeights(a) \cup ArgFamilyWeights(a) : w <= 0

\* The construction was attempted and raised.
ConstructorRaised == pipe_pc = "error" /\ img_cfg = <<>>

\* Something is active: a family of positive weight in multi-family mode, a
\* view of positive weight in single-family mode.
SomethingActive ==
    IF img_cfg.enable_multi_model
    THEN \E f \in 1..Len(img_cfg.active_families) :
            img_cfg.active_families[f].value.family_weight > 0
    ELSE \E v \in 1..Len(img_cfg.active_model_weights) :
            img_cfg.active_model_weights[v].value > 0

\* Every active family has a view of positive weight.
ActiveFamiliesHaveActiveView ==
    img_cfg.enable_multi_model =>
        \A f \in 1..Len(img_cfg.active_families) :
            \E v \in 1..Len(img_cfg.active_families[f].value.query_collections) :
                DictGet(img_cfg.model_weights,
                        img_cfg.active_families[f].value.query_collections[v], 0) > 0

\* C14 as stated: a configuration without a positive weight fails at
\* construction; after a successful construction something is active and
\* every active family has at least one view of positive weight.
C14_ActiveAfterConstruction ==
    pipe_pc # "new" =>
        /\ NoPositiveWeight(run_args.pipeline_args) => ConstructorRaised
        /\ ~ConstructorRaised => (SomethingActive /\ ActiveFamiliesHaveActiveView)

\* C14, corrected: a configuration without a positive weight fails at
\* construction; after a successful construction at least one family of
\* positive family weight is active in multi-family mode, at least one view
\* of positive weight in single-family mode.  The view weights of an active
\* family are not examined.
C14_FamilyOrViewActive ==
    pipe_pc # "new" =>
        /\ NoPositiveWeight(run_args.pipeline_args) => ConstructorRaised
        /\ ~ConstructorRaised => SomethingActive

\* A construction that raised on a configuration without a positive weight.
C14_Witness ==
    /\ pipe_pc # "new"
    /\ NoPositiveWeight(run_args.pipeline_args)
    /\ ConstructorRaised

(***************************************************************************)
(* The image stage under a configuration without a view or family of       *)
(* weight 0.                                                                *)
(***************************************************************************)
\* seq without its i-th element
Without(seq, i) == SubSeq(seq, 1, i - 1) \o SubSeq(seq, i + 1, Len(seq))

\* The JSON configuration without view j of database i, without database i.
RemoveView(config_data, i, j) ==
    [config_data EXCEPT ![i].value.query_collections = Without(@, j)]

RemoveFamily(config_data, i) == Without(config_data, i)

\* The configurations obtained from the JSON configuration of the run by
\* removing one view of weight 0 or one database of weight 0.
ReducedConfigs ==
    LET a == run_args.pipeline_args
    IN {[a EXCEPT !.config_data = RemoveView(a.config_data, i, j)] :
            <<i, j>> \in {p \in (1..Len(a.config_data)) \X (1..MaxHits) :
                /\ p[2] <= Len(a.config_data[p[1]].value.query_collections)
                /\ a.config_data[p[1]].value.query_collections[p[2]].value = 0}}
       \cup {[a EXCEPT !.config_data = RemoveFamily(a.config_data, i)] :
                i \in {d \in 1..Len(a.config_data) :
                          a.config_data[d].value.weight = 0 /\ Len(a.config_data) > 1}}

\* What multi_model_image_search_pipeline returns for the pipeline object
\* cfg on the classified queries of the run.
MultiModelResults(cfg) ==
    multi_model_rrf(cfg,
        [f \in 1..Len(cfg.active_families) |->
            [key |-> cfg.active_families[f].key,
             value |-> [results |-> FamilyFinalResultsFor(cfg, cfg.active_families[f].value),
                        weight |-> cfg.active_families[f].value.family_weight]]],
        run_args.final_top_k, cfg.use_voting)

\* The run is one with a JSON configuration whose image stage has returned.
JsonRunReturned ==
    /\ pipe_pc \in {"save", "done"}
    /\ run_args.pipeline_args.config_data # <<>>

\* C13: the fused output of the run equals the fused output of the same run
\* with a view of weight 0, or a family of weight 0, removed from the
\* configuration.
C13_ZeroWeightIsRemoval ==
    JsonRunReturned =>
        /\ final_results = MultiModelResults(img_cfg)
        /\ \A reduced \in ReducedConfigs :
               final_results = MultiModelResults(PipelineObject(reduced))

(***************************************************************************)
(* The per-family temp files of multi_model_image_search_pipeline.          *)
(***************************************************************************)
\* The temp files of the families that are in the file system.
TempFilesLeft == {f \in fs : f.path[1] = "/tmp"}

\* multi_model_image_search_pipeline was entered and has ended, by a return
\* or by an exception raised in the loop over the families.
MultiModelEnded ==
    /\ img_cfg # <<>>
    /\ img_cfg.enable_multi_model
    /\ classified # <<>>
    /\ pipe_pc \in {"save", "done", "error"}

\* C15: when multi_model_image_search_pipeline has ended, normally or with
\* an exception, no per-family temp file is left.
C15_TempFilesDeleted == MultiModelEnded => TempFilesLeft = {}

(***************************************************************************)
(* Specification of the two fusion steps of the multi-model image stage on *)
(* given search results: _aggregate_final_collections for each family,     *)
(* multi_model_rrf over the families, save_final_image_results.            *)
(* pipe_pc: "aggregate" -> "save" -> "done".                               *)
(***************************************************************************)
\* The name of a view in a JSON config file.
ViewName(kind, size) == <<kind, "_", "Initialized", "_", size>>

\* Two families, Large with the views Query and Summary, Base with the view
\* Query: a view of weight 0, equal weights, different weights.
FusionConfigs ==
    { << JsonDatabase("Large", 10, << <<"Query", 10>>, <<"Summary", w[1]>> >>),
         JsonDatabase("Base", w[2], << <<"Query", 9>> >>) >> :
        w \in {<<0, 9>>, <<10, 10>>, <<12, 9>>} }

\* The hits of a search, by their image ids: the index returns them in
\* descending similarity.  Two hits can carry the same image id (two points
\* of one image, or the default id of a hit without one).
HitsOf(ids) == [h \in 1..Len(ids) |-> [id |-> ids[h], score |-> (MaxHits + 1 - h) * 100000]]

\* The lists of at most n hits.
HitLists(n) == {HitsOf(ids) : ids \in UNION {SeqsOfLen(Images, m) : m \in 0..n}}

\* The lists of at most n hits of different images.
DistinctHitLists(n) ==
    {hits \in HitLists(n) : \A i, j \in 1..Len(hits) : hits[i].id = hits[j].id => i = j}

\* family_search_results of the family Large: query 2 was searched with its
\* articles and comes first, query 1 directly.
LargeSearchResults(query, summary) ==
    << [key |-> 2, value |-> << [key |-> ViewName("Query", "Large"),
                                 value |-> HitsOf(<<"i3", "i1">>)] >>],
       [key |-> 1, value |-> << [key |-> ViewName("Query", "Large"), value |-> query],
                                [key |-> ViewName("Summary", "Large"), value |-> summary] >>] >>

\* family_search_results of the family Base: query 1 only.
BaseSearchResults(query) ==
    << [key |-> 1, value |-> << [key |-> ViewName("Query", "Base"), value |-> query] >>] >>

InitFusion ==
    /\ \E config \in FusionConfigs, voting \in BOOLEAN :
          img_cfg = PipelineObject([primary_checkpoint |-> "Initialized",
                                    config_data |-> config, enable_multi_model |-> TRUE,
                                    private_test_mode |-> FALSE, use_voting |-> voting,
                                    rrf_k |-> 60, multi_model_rrf_k |-> 50])
    /\ \E query \in HitLists(MaxHits - 1), summary \in DistinctHitLists(MaxHits) :
          \E base \in {<<>>} \cup {BaseSearchResults(b) : b \in HitLists(MaxHits - 2)} :
              family_search_results = <<LargeSearchResults(query, summary), base>>
    /\ run_args \in [mode : {"image_search_only"}, config_name : {<<>>}, final_top_k : {1, 2}]
    /\ fs = {} /\ csv_files = <<>> /\ output_dir = <<>> /\ submission_csv_path = <<>>
    /\ article_to_images = <<>> /\ qdrant = <<>> /\ es_index = <<>>
    /\ output_submission_csv = <<>> /\ cascade_csv_path = <<>> /\ classified = <<>>
    /\ family_results = <<>> /\ final_results = <<>> /\ track2_csv_path = <<>>
    /\ pipe_pc = "aggregate"
    /\ RrfIdle
    /\ BoostIdle
    /\ SearchIdle
    /\ UploadIdle

\* One pass of the family loop after its searches: the family's results are
\* aggregated, written to a temp file and kept with the family's weight.
AggregateFamily ==
    /\ pipe_pc = "aggregate"
    /\ Len(family_results) < Len(img_cfg.active_families)
    /\ LET n == Len(family_results) + 1
           family == img_cfg.active_families[n]
       IN /\ fs' = WriteFile(fs, TempFile(n, family.key), OpaqueFile)
          /\ family_results' = Append(family_results,
                 [key |-> family.key,
                  value |-> [results |-> aggregate_final_collections(img_cfg,
                                             family_search_results[n], img_cfg.use_voting),
                             weight |-> family.value.family_weight,
                             temp_file |-> TempFile(n, family.key)]])
    /\ UNCHANGED <<csv_files, output_dir, submission_csv_path, classified, final_results,
                   track2_csv_path, pipe_pc>>
    /\ UNCHANGED text_vars
    /\ UNCHANGED run_inputs
    /\ UNCHANGED pipe_frame

\* multi_model_rrf over the aggregated families, then the temp files are
\* removed.
FuseFamilies ==
    /\ pipe_pc = "aggregate"
    /\ Len(family_results) = Len(img_cfg.active_families)
    /\ final_results' = multi_model_rrf(img_cfg, family_results, run_args.final_top_k,
                                        img_cfg.use_voting)
    /\ fs' = {f \in fs : \A i \in 1..Len(family_results) :
                            f.path # family_results[i].value.temp_file}
    /\ pipe_pc' = "save"
    /\ UNCHANGED <<csv_files, output_dir, submission_csv_path, classified, family_results,
                   track2_csv_path>>
    /\ UNCHANGED text_vars
    /\ UNCHANGED run_inputs
    /\ UNCHANGED pipe_frame

NextFusion ==
    \/ AggregateFamily
    \/ FuseFamilies
    \/ SaveFinalImageResults

SpecFusion == InitFusion /\ [][NextFusion]_vars

(***************************************************************************)
(* Properties of the fusion steps.                                         *)
(***************************************************************************)
\* Sum over the lists of positive weight, and over every position p at which
\* img stands in the list, of weight / (k + p) (by_rank, over the denominator
\* ImageScoreDen(k)) or of weight.
OccurrenceSum(lists, weights, img, by_rank, k) ==
    SumOver(1..Len(lists),
        [v \in 1..Len(lists) |->
            IF weights[v] <= 0 THEN 0
            ELSE SumOver({p \in 1..Len(lists[v]) : lists[v][p] = img},
                     [p \in 1..Len(lists[v]) |->
                         IF by_rank THEN (weights[v] * ImageScoreDen(k)) \div (k + p)
                         ELSE weights[v]])])

\* Sum of the weights of the lists of positive weight that hold img.
MembershipSum(lists, weights, img) ==
    SumOver(1..Len(lists),
        [v \in 1..Len(lists) |->
            IF weights[v] > 0 /\ \E p \in 1..Len(lists[v]) : lists[v][p] = img
            THEN weights[v] ELSE 0])

\* list is: the images of positive score, each once, in descending score,
\* cut to the n of highest score.
TopRanked(list, Score(_), n) ==
    LET V == {x \in Images : Score(x) > 0}
    IN /\ Len(list) = Min(n, Cardinality(V))
       /\ \A i \in 1..Len(list) : list[i] \in V
       /\ \A i, j \in 1..Len(list) : i < j =>
              list[i] # list[j] /\ Score(list[i]) >= Score(list[j])
       /\ \A x \in V : (\A i \in 1..Len(list) : list[i] # x) =>
              \A i \in 1..Len(list) : Score(list[i]) >= Score(x)

\* The id lists of the views of one query, and the configured weights of
\* these views.
ViewLists(views) == [v \in 1..Len(views) |-> [h \in 1..Len(views[v].value) |-> views[v].value[h].id]]

ConfiguredWeights(views) == [v \in 1..Len(views) |-> DictGet(img_cfg.model_weights, views[v].key, 0)]

\* Every aggregated family holds, for each query of its search results, the
\* images ranked by Score(views, img), cut to 50.
AggregatedBy(Score(_, _)) ==
    \A n \in 1..Len(family_results) :
        /\ Len(family_results[n].value.results) = Len(family_search_results[n])
        /\ \A e \in 1..Len(family_search_results[n]) :
              LET QueryScore(img) == Score(family_search_results[n][e].value, img)
              IN /\ DictHas(family_results[n].value.results, family_search_results[n][e].key)
                 /\ TopRanked(DictGet(family_results[n].value.results,
                                      family_search_results[n][e].key, <<>>),
                              QueryScore, AggregateTop)

C17_VoteOncePerView ==
    (pipe_pc \in {"aggregate", "save", "done"} /\ img_cfg.use_voting) =>
        LET Score(views, img) == MembershipSum(ViewLists(views), ConfiguredWeights(views), img)
        IN AggregatedBy(Score)

\* The lists of the families for one query, each cut to n, and the weights of
\* the families.
FamilyLists(query_id, n) ==
    [f \in 1..Len(family_results) |->
        Take(DictGet(family_results[f].value.results, query_id, <<>>), n)]

FamilyListWeights == [f \in 1..Len(family_results) |-> family_results[f].value.weight]

\* The query ids of the aggregated families.
FamilyQueryIds ==
    UNION {{family_results[f].value.results[i].key :
               i \in 1..Len(family_results[f].value.results)} : f \in 1..Len(family_results)}

\* A family's results with every list cut to n.
CutTo(families, n) ==
    [f \in 1..Len(families) |->
        [key |-> families[f].key,
         value |-> [families[f].value EXCEPT !.results =
                       [i \in 1..Len(@) |-> [key |-> @[i].key, value |-> Take(@[i].value, n)]]]]]

\* C18: multi_model_rrf scores an image of a query by the sum over the
\* families of w_F / (multi_model_rrf_k + rank) (of w_F in voting mode) over
\* the first final_top_k images of the family's list only, returns for every
\* query of some family the images in descending score, at most final_top_k
\* of them, and gives the same result when what follows rank final_top_k is
\* taken off the families' lists.
C18_FamiliesFusedOnTopK ==
    (pipe_pc \in {"save", "done"}) =>
        /\ DOMAIN final_results = FamilyQueryIds
        /\ \A query_id \in FamilyQueryIds :
              LET Score(img) == OccurrenceSum(FamilyLists(query_id, run_args.final_top_k),
                                              FamilyListWeights, img, ~img_cfg.use_voting,
                                              img_cfg.multi_model_rrf_k)
              IN TopRanked(final_results[query_id], Score, run_args.final_top_k)
        /\ final_results = multi_model_rrf(img_cfg, CutTo(family_results, run_args.final_top_k),
                                           run_args.final_top_k, img_cfg.use_voting)

\* C18 happens: final_top_k = 1, family Large ranks i1 before i2 and family
\* Base (same weight) holds i2 only: i1 and i2 tie at w / 51 and i1, seen
\* first, is returned; with the second image of Large counted i2 would win.
C18_Witness ==
    /\ pipe_pc = "save" /\ ~img_cfg.use_voting /\ run_args.final_top_k = 1
    /\ Len(family_results) = 2 /\ FamilyListWeights = <<10, 10>>
    /\ DictGet(family_results[1].value.results, 1, <<>>) = <<"i1", "i2">>
    /\ DictGet(family_results[2].value.results, 1, <<>>) = <<"i2">>
    /\ final_results[1] = <<"i1">>

\* The position at which x is first seen in the pass over the lists of
\* positive weight.
FirstSeen(lists, weights, x) ==
    LET seen == Flatten([v \in 1..Len(lists) |-> IF weights[v] <= 0 THEN <<>> ELSE lists[v]])
    IN CHOOSE p \in 1..Len(seen) : seen[p] = x /\ \A r \in 1..(p - 1) : seen[r] # x

\* list is the one list that the scores and the pass determine: descending
\* score, equal scores in first-seen order, cut to n.
StableRanked(list, Score(_), lists, weights, n) ==
    LET Before(x, y) == \/ Score(x) > Score(y)
                        \/ Score(x) = Score(y)
                           /\ FirstSeen(lists, weights, x) < FirstSeen(lists, weights, y)
    IN /\ TopRanked(list, Score, n)
       /\ \A i, j \in 1..Len(list) : i < j => Before(list[i], list[j])
       /\ \A x \in Images :
              (Score(x) > 0 /\ \A i \in 1..Len(list) : list[i] # x) =>
                  \A i \in 1..Len(list) : Before(list[i], x)

MaxEntities == 2

\* What stands for a key that an entity does not hold, and for the JSON
\* null (None) as the value of a key.
NoKey == "<no key>"

JsonNull == "<null>"

\* self.entity_weights, in tenths, for the labels of the model.
entity_weights == << [key |-> "PERSON", value |-> 43], [key |-> "DEFAULT", value |-> 10] >>

\* entity.get(field, "")
EntityGet(entity, field) == IF entity[field] = NoKey THEN "" ELSE entity[field]

\* The clauses that one entity adds to should_queries: the weighted query
\* and, with a label, the same-label bonus query; boosts in hundredths.
EntityClauses(entity) ==
    LET entity_text == Strip(EntityGet(entity, "text"))
        entity_label == EntityGet(entity, "label")
        weight == DictGet(entity_weights, entity_label, DictGet(entity_weights, "DEFAULT", 0))
    IN IF entity_text = "" THEN <<>>
       ELSE <<[text |-> entity_text, label |-> "", boost |-> weight * 10]>>
            \o (IF entity_label # ""
                THEN <<[text |-> entity_text, label |-> entity_label, boost |-> weight * 13]>>
                ELSE <<>>)

\* entity.get("text", "").strip() raises AttributeError on None.
StripRaises(entities) == \E i \in 1..Len(entities) : entities[i].text = JsonNull

\* search_articles_for_query: raised tells that an exception leaves the
\* call.  The loop over the entities stands before the try block; the POST,
\* the status test and the reading of the body stand inside it.
search_articles_for_query(entities, top_k, response) ==
    IF Len(entities) = 0 THEN [raised |-> FALSE, value |-> <<>>]
    ELSE IF StripRaises(entities) THEN [raised |-> TRUE, value |-> <<>>]
    ELSE IF Len(Flatten([i \in 1..Len(entities) |-> EntityClauses(entities[i])])) = 0
    THEN [raised |-> FALSE, value |-> <<>>]
    ELSE IF response.transport_error THEN [raised |-> FALSE, value |-> <<>>]
    ELSE IF response.status_code = 200
    THEN IF ~response.body_valid THEN [raised |-> FALSE, value |-> <<>>]
         ELSE [raised |-> FALSE,
               value |-> [i \in 1..Len(Take(response.hits, top_k)) |->
                            [rank |-> i, article_id |-> response.hits[i].article_id,
                             score |-> response.hits[i].score]]]
    ELSE [raised |-> FALSE, value |-> <<>>]

\* One call of search_articles_for_query.
SearchArticlesForQuery ==
    /\ search_pc = "call"
    /\ LET outcome == search_articles_for_query(query_entities, search_top_k, es_response)
       IN /\ article_results' = outcome.value
          /\ search_pc' = IF outcome.raised THEN "raised" ELSE "returned"
    /\ UNCHANGED <<query_entities, search_top_k, es_articles, es_response>>
    /\ UNCHANGED <<rrf_vars, boost_vars, pipe_vars, upload_vars>>

\* The entities of a query as the queries index stores them.
Entities == [text : {NoKey, JsonNull, "", " ", "x"}, label : {NoKey, "", "PERSON", "XYZ"}]

\* What the POST does: a transport failure, an error status, a body that
\* cannot be read, the hits of the index.
Responses ==
    {[transport_error |-> TRUE, status_code |-> 0, body_valid |-> FALSE, hits |-> <<>>],
     [transport_error |-> FALSE, status_code |-> 500, body_valid |-> TRUE, hits |-> <<>>],
     [transport_error |-> FALSE, status_code |-> 200, body_valid |-> FALSE, hits |-> <<>>],
     [transport_error |-> FALSE, status_code |-> 200, body_valid |-> TRUE, hits |-> <<>>],
     [transport_error |-> FALSE, status_code |-> 200, body_valid |-> TRUE,
      hits |-> << [article_id |-> "a", score |-> 90], [article_id |-> "b", score |-> 70] >>]}

InitSearch ==
    /\ query_entities \in UNION {SeqsOfLen(Entities, n) : n \in 0..MaxEntities}
    /\ search_top_k \in {1, 10}
    /\ es_response \in Responses
    /\ es_articles = <<>>
    /\ article_results = <<>>
    /\ search_pc = "call"
    /\ RrfIdle
    /\ BoostIdle
    /\ PipeIdle
    /\ UploadIdle

NextSearch == SearchArticlesForQuery

SpecSearch == InitSearch /\ [][NextSearch]_vars

\* An entity without a usable text: the key is missing or the text is empty.
NoText(entity) == entity.text \in {NoKey, ""}

\* C20 as claimed: search_articles_for_query never lets an exception out, and
\* returns the empty list for an empty entity list, for entities that all
\* have an empty or missing text, for a transport failure and for a status
\* other than 200.
C20_NeverRaises ==
    search_pc # "call" =>
        /\ search_pc = "returned"
        /\ (\/ \A i \in 1..Len(query_entities) : NoText(query_entities[i])
            \/ es_response.transport_error
            \/ es_response.status_code # 200) => article_results = <<>>

(***************************************************************************)
(* Properties of the stage-1 submission file.                              *)
(***************************************************************************)
\* The text stage has just ended and nothing ran after it.
TextStageJustEnded ==
    /\ run_args # <<>> /\ run_args.mode = "integrated" /\ cascade_csv_path # <<>>
    /\ \/ pipe_pc = "rrf"
       \/ pipe_pc = "image" /\ run_args.additional_csv_files = <<>>

\* The queries search_all_queries_and_save processes.
ProcessedQueries ==
    IF run_args.max_queries # 0 /\ run_args.max_queries < Len(es_index.queries)
    THEN SubSeq(es_index.queries, 1, run_args.max_queries)
    ELSE es_index.queries

EntityTexts == {"Messi", "messi", "messy", "Ronaldo"}

\* The standard analyzer and str.lower(): the text in lower case.
Lower(text) == IF text = "Messi" THEN "messi" ELSE IF text = "Ronaldo" THEN "ronaldo" ELSE text

\* term on entities.text.keyword: the stored text is the value.
TermMatches(value, stored) == stored = value

\* match on entities.text: the analyzed texts are equal.
TextMatches(query, stored) == Lower(query) = Lower(stored)

\* match with fuzziness AUTO: one edit is allowed for a term of 5 letters.
FuzzyMatches(query, stored) ==
    \/ TextMatches(query, stored)
    \/ {Lower(query), Lower(stored)} = {"messi", "messy"}

\* prefix on entities.text.keyword: the stored text starts with the value;
\* among the texts of the model only the value itself does.
PrefixMatches(value, stored) == stored = value

\* The inner boosts of the three matchers and of a leaf without a boost, in
\* tenths.
ExactBoost == 50

FuzzyBoost == 20

PrefixBoost == 15

LeafBoost == 10

\* The score of one article entity under a clause of should_queries: the
\* bool query inside the nested query.  A clause without a label is the
\* weighted query (should: term, fuzzy match, prefix on the lower-cased
\* text), a clause with a label the bonus query (must: match, term on the
\* label).
EntityScore(clause, stored) ==
    IF clause.label = ""
    THEN (IF TermMatches(clause.text, stored.text) THEN ExactBoost ELSE 0)
         + (IF FuzzyMatches(clause.text, stored.text) THEN FuzzyBoost ELSE 0)
         + (IF PrefixMatches(Lower(clause.text), stored.text) THEN PrefixBoost ELSE 0)
    ELSE IF TextMatches(clause.text, stored.text) /\ stored.label = clause.label
         THEN LeafBoost + LeafBoost ELSE 0

\* nested, score_mode max, under function_score with boost_mode multiply.
ClauseScore(clause, article) ==
    clause.boost * SeqMax([e \in 1..Len(article.entities) |->
                              EntityScore(clause, article.entities[e])])

\* The score of an article under the bool query of all clauses.
ArticleScore(clauses, article) ==
    SumOver(1..Len(clauses), [c \in 1..Len(clauses) |-> ClauseScore(clauses[c], article)])

\* The response of the index to the search query: the articles that match
\* at least one clause, in descending score, at most size of them.
IndexResponse(clauses, size, articles) ==
    [transport_error |-> FALSE, status_code |-> 200, body_valid |-> TRUE,
     hits |-> Take(SortedArticles(
                  SelectSeq([a \in 1..Len(articles) |->
                                [id |-> articles[a].article_id,
                                 score |-> ArticleScore(clauses, articles[a])]],
                            LAMBDA h : h.score > 0)), size)]

\* requests.post(.../_search, json=search_query)
PostSearch ==
    /\ search_pc = "call"
    /\ LET should_queries == Flatten([i \in 1..Len(query_entities) |->
                                         EntityClauses(query_entities[i])])
           answer == IndexResponse(should_queries, search_top_k, es_articles)
       IN es_response' = [answer EXCEPT !.hits =
                             [h \in 1..Len(@) |-> [article_id |-> @[h].id, score |-> @[h].score]]]
    /\ search_pc' = "posted"
    /\ UNCHANGED <<query_entities, search_top_k, es_articles, article_results>>
    /\ UNCHANGED <<rrf_vars, boost_vars, pipe_vars, upload_vars>>

\* The response is read and the list returned.
ReturnResults ==
    /\ search_pc = "posted"
    /\ article_results' = search_articles_for_query(query_entities, search_top_k,
                                                    es_response).value
    /\ search_pc' = "returned"
    /\ UNCHANGED <<query_entities, search_top_k, es_articles, es_response>>
    /\ UNCHANGED <<rrf_vars, boost_vars, pipe_vars, upload_vars>>

\* Articles of one entity each.
ScoredArticles ==
    {<< [article_id |-> "a", entities |-> <<first>>],
        [article_id |-> "b", entities |-> <<second>>] >> :
        first, second \in [text : EntityTexts, label : {"PERSON", "ORG"}]}

InitScore ==
    /\ query_entities \in UNION {SeqsOfLen([text : {"Messi", "messi", "Ronaldo"},
                                           label : {"PERSON", "ORG"}], n) :
                                    n \in 1..MaxEntities}
    /\ search_top_k = 10
    /\ es_articles \in ScoredArticles
    /\ es_response = <<>>
    /\ article_results = <<>>
    /\ search_pc = "call"
    /\ RrfIdle
    /\ BoostIdle
    /\ PipeIdle
    /\ UploadIdle

NextScore ==
    \/ PostSearch
    \/ ReturnResults

SpecScore == InitScore /\ [][NextScore]_vars

\* The score of an article as returned, 0 when it is not among the results.
ReturnedScore(article_id) ==
    IF \E h \in 1..Len(article_results) : article_results[h].article_id = article_id
    THEN article_results[CHOOSE h \in 1..Len(article_results) :
                            article_results[h].article_id = article_id].score
    ELSE 0

\* The weight of a label, in tenths.
LabelWeight(label) == DictGet(entity_weights, label, DictGet(entity_weights, "DEFAULT", 0))

\* The best of the three matchers over the entities of an article.
BestMatcher(text, article) ==
    SeqMax([e \in 1..Len(article.entities) |->
               IF TermMatches(text, article.entities[e].text) THEN ExactBoost
               ELSE IF FuzzyMatches(text, article.entities[e].text) THEN FuzzyBoost
               ELSE IF PrefixMatches(Lower(text), article.entities[e].text) THEN PrefixBoost
               ELSE 0])

\* Some entity of the article matches the text and has the label.
SameLabelMatch(text, label, article) ==
    \E e \in 1..Len(article.entities) :
        /\ TextMatches(text, article.entities[e].text)
        /\ article.entities[e].label = label

\* C22 as claimed: for one query entity (text, label) with a label, the
\* score of an article is w times the best of the exact (5.0), fuzzy (2.0)
\* and prefix (1.5) matchers, plus 1.3 * w times the same-label clause when
\* an entity of the article matches the text and has the label; and an
\* article holding the text under the label scores above an article holding
\* the same text under another label.
C22_BestMatcherPlusBonus ==
    (search_pc = "returned" /\ Len(query_entities) = 1) =>
        LET text == query_entities[1].text
            label == query_entities[1].label
        IN /\ \A a \in 1..Len(es_articles) :
                 ReturnedScore(es_articles[a].article_id)
                    = LabelWeight(label) * 10 * BestMatcher(text, es_articles[a])
                      + (IF SameLabelMatch(text, label, es_articles[a])
                         THEN LabelWeight(label) * 13 * (LeafBoost + LeafBoost) ELSE 0)
           /\ \A a, b \in 1..Len(es_articles) :
                 (/\ es_articles[a].entities[1].text = es_articles[b].entities[1].text
                  /\ TextMatches(text, es_articles[a].entities[1].text)
                  /\ es_articles[a].entities[1].label = label
                  /\ es_articles[b].entities[1].label # label)
                 => ReturnedScore(es_articles[a].article_id)
                       > ReturnedScore(es_articles[b].article_id)

(***************************************************************************)
(* Properties of the configuration the constructor builds.                 *)
(***************************************************************************)
\* The view names of the configuration as given: the names of the JSON
\* file, or the names made of the primary checkpoint.
ArgViewNames(a) ==
    IF a.config_data # <<>>
    THEN UNION {{a.config_data[i].value.query_collections[j].key :
                    j \in 1..Len(a.config_data[i].value.query_collections)} :
                i \in 1..Len(a.config_data)}
    ELSE {<<kind, "_", a.primary_checkpoint, "_", size>> :
             kind \in {"Query", "Summary", "Concise"},
             size \in IF a.enable_multi_model THEN {"Large", "Base"} ELSE {"Large"}}
         \cup (IF a.enable_multi_model /\ a.enable_h14_laion
               THEN {<<kind, "_", "Laion", "_", "H14">> : kind \in {"Query", "Summary", "Concise"}}
               ELSE {})

\* The search-collection names of the configuration as given.
ArgSearchCollections(a) ==
    IF a.config_data # <<>> THEN {a.config_data[i].key : i \in 1..Len(a.config_data)}
    ELSE IF ~a.enable_multi_model THEN {}
    ELSE {<<"Database", "_", a.primary_checkpoint, "_", size>> : size \in {"Large", "Base"}}
         \cup (IF a.enable_h14_laion THEN {<<"Database", "_", "Laion", "_", "H14">>} ELSE {})

\* C23: private-test mode: the names of the weight table are the given view
\* names with 'Private_' before them, every view of a family is such a name
\* and has an entry in the weight table, and the search collections are the
\* given names, without a prefix.
C23_PrivatePrefixOnViewsOnly ==
    (pipe_pc # "new" /\ img_cfg # <<>> /\ run_args.pipeline_args.private_test_mode) =>
        LET a == run_args.pipeline_args
            Private == {<<"Private", "_">> \o name : name \in ArgViewNames(a)}
        IN /\ {img_cfg.model_weights[i].key : i \in 1..Len(img_cfg.model_weights)} = Private
           /\ \A f \in 1..Len(img_cfg.model_families) :
                 \A v \in 1..Len(img_cfg.model_families[f].value.query_collections) :
                    /\ img_cfg.model_families[f].value.query_collections[v] \in Private
                    /\ DictHas(img_cfg.model_weights,
                               img_cfg.model_families[f].value.query_collections[v])
           /\ {img_cfg.model_families[f].value.search_collection :
                  f \in 1..Len(img_cfg.model_families)} = ArgSearchCollections(a)

\* C23 happens: a JSON configuration and a legacy multi-model configuration
\* are loaded in private-test mode.
C23_Witness ==
    /\ pipe_pc = "start" /\ img_cfg # <<>> /\ run_args.pipeline_args.private_test_mode
    /\ Len(img_cfg.model_families) = 2
    /\ run_args.pipeline_args.config_data # <<>>
    /\ img_cfg.model_families[1].value.query_collections[1]
          = <<"Private", "_", "Query", "_", "Initialized", "_", "Large">>
    /\ img_cfg.model_families[1].value.search_collection
          = <<"Database", "_", "Initialized", "_", "Large">>

(***************************************************************************)
(* Sub-searches that find no embedding or fail.                            *)
(***************************************************************************)
\* The views whose sub-search finds no embedding or fails.
FailingViews(index) == index.no_embedding \cup index.search_raises

\* The index with every embedding present and every search answering.
Healthy(index) == [index EXCEPT !.no_embedding = {}, !.search_raises = {}]

\* Search results in which the views of failing hold the empty list.
EmptiedViews(all_results, failing) ==
    [q \in 1..Len(all_results) |->
        [key |-> all_results[q].key,
         value |-> [c \in 1..Len(all_results[q].value) |->
                      [key |-> all_results[q].value[c].key,
                       value |-> IF ViewKind(all_results[q].value[c].key) \in failing
                                 THEN <<>> ELSE all_results[q].value[c].value]]]]

\* What a family's searches and their aggregation give when each failing
\* view contributes the empty list and the other views what they find.
FamilyResultsWithEmptyViews(family_config) ==
    LET with == IF Len(classified.queries_with_articles) > 0
                THEN search_queries_with_articles(img_cfg, Healthy(qdrant), boost_cfg,
                         article_to_images, classified.queries_with_articles,
                         classified.query_to_articles, family_config.query_collections,
                         family_config.search_collection, run_args.final_top_k, <<>>)
                ELSE <<>>
        without == IF Len(classified.queries_without_articles) > 0
                   THEN search_queries_without_articles(img_cfg, Healthy(qdrant),
                            classified.queries_without_articles,
                            family_config.query_collections,
                            family_config.search_collection, run_args.direct_search_top_k)
                   ELSE <<>>
    IN aggregate_final_collections(img_cfg,
           EmptiedViews(DictUpdate(DictUpdate(<<>>, with), without), FailingViews(qdrant)),
           img_cfg.use_voting)

\* The queries for which the views of a family are searched: those with a
\* candidate image, and those without articles when a view is left to search.
SearchedQueries(family_config) ==
    {classified.queries_with_articles[i] : i \in
        {j \in 1..Len(classified.queries_with_articles) :
            Len(CandidateImages(article_to_images,
                    DictGet(classified.query_to_articles,
                            classified.queries_with_articles[j], <<>>), 1)) > 0}}
    \cup (IF Len(OptimizedCollections(img_cfg, family_config.query_collections)) > 0
          THEN {classified.queries_without_articles[i] :
                   i \in 1..Len(classified.queries_without_articles)}
          ELSE {})

\* C24: a view whose embedding lookup finds nothing or fails, or whose search
\* raises, contributes the empty list: each family's results are those of the
\* other views alone, every searched query has an entry in them, the run does
\* not end in an error at the searches, and the query has a row in the stage-2
\* CSV.
C24_FailedViewIsEmptyList ==
    /\ (pipe_pc \in {"families", "save", "done"} /\ img_cfg # <<>> /\ img_cfg.enable_multi_model) =>
          \A f \in 1..Len(family_results) :
             /\ family_results[f].value.results
                   = FamilyResultsWithEmptyViews(img_cfg.active_families[f].value)
             /\ \A query_id \in SearchedQueries(img_cfg.active_families[f].value) :
                   DictHas(family_results[f].value.results, query_id)
    /\ (pipe_pc = "done" /\ img_cfg # <<>> /\ img_cfg.enable_multi_model) =>
          \A f \in 1..Len(family_results) :
             SearchedQueries(img_cfg.active_families[f].value)
                \subseteq RowQueryIds(FileContent(fs, track2_csv_path))

\* C24 happens: the Summary view holds no embedding and the search of the
\* Query view raises; the run ends with a row of the query that holds what
\* the Concise view found.
C24_Witness ==
    /\ pipe_pc = "done" /\ img_cfg # <<>> /\ img_cfg.enable_multi_model
    /\ qdrant.no_embedding = {"Summary"} /\ qdrant.search_raises = {"Query"}
    /\ Len(family_results) > 0
    /\ \E query_id \in SearchedQueries(img_cfg.active_families[1].value) :
          \E r \in 1..Len(FileContent(fs, track2_csv_path).rows) :
             /\ FileContent(fs, track2_csv_path).rows[r].query_id = query_id
             /\ FileContent(fs, track2_csv_path).rows[r].cells[1] = "i3"

(***************************************************************************)
(* Errors on writing the final artifacts.                                  *)
(***************************************************************************)
\* C25: when writing the stage-1 submission CSV fails in
\* search_all_queries_and_save, the run ends in an error state: it neither
\* goes on to the following stages nor ends as completed.
C25_FailedWriteIsFatal ==
    (es_index # <<>> /\ es_index.write_fails /\ pipe_pc \notin {"start", "text"}) =>
        pipe_pc = "error"

(***************************************************************************)
(* elasticsearch_articles_uploader.py: upload_articles_from_file and       *)
(* _bulk_upload.                                                            *)
(***************************************************************************)
\* Largest number of articles in the file.
MaxArticles == 5

\* The default of the parameter batch_size.
DefaultBatchSize == 500

\* What the POST of a bulk body does: it raises, or it answers with a status
\* and the "errors" flag of the response body.
BulkResponses ==
    {[raises |-> TRUE, status |-> 0, errors |-> FALSE],
     [raises |-> FALSE, status |-> 500, errors |-> FALSE],
     [raises |-> FALSE, status |-> 200, errors |-> TRUE],
     [raises |-> FALSE, status |-> 200, errors |-> FALSE]}

\* _bulk_upload: True only for a 200 response without errors.
bulk_upload(response) ==
    IF response.raises THEN FALSE
    ELSE IF response.status = 200 THEN ~response.errors
    ELSE FALSE

\* The two bulk lines of one article: the index operation and the article.
BulkLines(article_id) ==
    <<[line |-> "index", article_id |-> article_id],
      [line |-> "article", article_id |-> article_id]>>

\* "if not os.path.exists(file_path): return False", else the streaming
\* loop starts.
OpenArticlesFile ==
    /\ upload_pc = "call"
    /\ IF articles_file.exists
       THEN upload_pc' = "stream" /\ UNCHANGED upload_returned
       ELSE upload_pc' = "returned" /\ upload_returned' = "False"
    /\ UNCHANGED <<articles_file, batch_size, batch_data, total_uploaded, bulk_calls>>
    /\ UNCHANGED <<rrf_vars, boost_vars, pipe_vars, search_vars>>

\* One pass of "for article_id, entities in ijson.kvitems(f, '')": the
\* article's two lines are appended and a full batch is uploaded; a failed
\* upload returns False.
StreamArticle ==
    /\ upload_pc = "stream"
    /\ Len(articles_file.articles) > 0
    /\ LET appended == batch_data \o BulkLines(articles_file.articles[1])
       IN /\ articles_file' = [articles_file EXCEPT !.articles = Tail(@)]
          /\ IF Len(appended) >= batch_size * 2
             THEN \E response \in BulkResponses :
                     /\ bulk_calls' = Append(bulk_calls,
                                             [lines |-> appended,
                                              success |-> bulk_upload(response)])
                     /\ IF bulk_upload(response)
                        THEN /\ total_uploaded' = total_uploaded + batch_size
                             /\ batch_data' = <<>>
                             /\ UNCHANGED <<upload_returned, upload_pc>>
                        ELSE /\ upload_returned' = "False"
                             /\ upload_pc' = "returned"
                             /\ batch_data' = appended
                             /\ UNCHANGED total_uploaded
             ELSE /\ batch_data' = appended
                  /\ UNCHANGED <<total_uploaded, bulk_calls, upload_returned, upload_pc>>
    /\ UNCHANGED batch_size
    /\ UNCHANGED <<rrf_vars, boost_vars, pipe_vars, search_vars>>

\* The stream raises while the file is read (a parse error): the except
\* branch returns False.
StreamRaises ==
    /\ upload_pc = "stream"
    /\ Len(articles_file.articles) > 0
    /\ upload_returned' = "False"
    /\ upload_pc' = "returned"
    /\ UNCHANGED <<articles_file, batch_size, batch_data, total_uploaded, bulk_calls>>
    /\ UNCHANGED <<rrf_vars, boost_vars, pipe_vars, search_vars>>

\* After the loop: "Upload remaining batch", then "return True".
UploadRemaining ==
    /\ upload_pc = "stream"
    /\ Len(articles_file.articles) = 0
    /\ IF Len(batch_data) > 0
       THEN \E response \in BulkResponses :
               /\ bulk_calls' = Append(bulk_calls, [lines |-> batch_data,
                                                    success |-> bulk_upload(response)])
               /\ total_uploaded' = IF bulk_upload(response)
                                    THEN total_uploaded + (Len(batch_data) \div 2)
                                    ELSE total_uploaded
       ELSE UNCHANGED <<bulk_calls, total_uploaded>>
    /\ upload_returned' = "True"
    /\ upload_pc' = "returned"
    /\ UNCHANGED <<articles_file, batch_size, batch_data>>
    /\ UNCHANGED <<rrf_vars, boost_vars, pipe_vars, search_vars>>

(***************************************************************************)
(* Specification of one call of upload_articles_from_file.                 *)
(***************************************************************************)
InitUpload ==
    /\ articles_file \in {[exists |-> e, articles |-> [i \in 1..n |-> i]] :
                             e \in BOOLEAN, n \in 0..MaxArticles}
    /\ batch_size \in (1..3) \cup {DefaultBatchSize}
    /\ batch_data = <<>>
    /\ total_uploaded = 0
    /\ bulk_calls = <<>>
    /\ upload_returned = "none"
    /\ upload_pc = "call"
    /\ RrfIdle
    /\ BoostIdle
    /\ PipeIdle
    /\ SearchIdle

NextUpload ==
    \/ OpenArticlesFile
    \/ StreamArticle
    \/ StreamRaises
    \/ UploadRemaining

SpecUpload == InitUpload /\ [][NextUpload]_vars

\* C26: every bulk call carries at most batch_size articles, and when a bulk
\* call has failed, for a full batch or for the last partial one,
\* upload_articles_from_file returns False.
C26_FailedBatchReturnsFalse ==
    /\ \A c \in 1..Len(bulk_calls) : Len(bulk_calls[c].lines) <= batch_size * 2
    /\ (upload_pc = "returned" /\ \E c \in 1..Len(bulk_calls) : ~bulk_calls[c].success) =>
          upload_returned = "False"

(***************************************************************************)
(* The default collections of the single-model image search.               *)
(***************************************************************************)
\* The configuration is the legacy one of a single family and gives a view
\* a weight above 0.
SingleFamilyWithWeight ==
    /\ img_cfg # <<>> /\ ~img_cfg.enable_multi_model
    /\ run_args.pipeline_args.config_data = <<>>
    /\ \E i \in 1..Len(img_cfg.model_weights) : img_cfg.model_weights[i].value > 0

\* C27: in single-family mode with a view weight above 0, public or
\* private, image_search_pipeline with its default collections has a view
\* collection to search: a default view name is a key of the active weight
\* table.
C27_DefaultViewsAreActive ==
    (pipe_pc = "image" /\ SingleFamilyWithWeight) =>
        Len(DefaultQueryCollections(img_cfg)) > 0

(***************************************************************************)
(* The article rank of a candidate image.                                  *)
(***************************************************************************)
\* The positions, in the list of the query's valid stage-1 articles, of the
\* articles that list the image.
ListingRanks(a2i, article_ids, image_id) ==
    {rank \in 1..Len(article_ids) :
        \E i \in 1..Len(DictGet(a2i, article_ids[rank], <<>>)) :
           DictGet(a2i, article_ids[rank], <<>>)[i] = image_id}

\* The candidate images of a list of articles, as a set.
CandidateSet(a2i, article_ids) ==
    {CandidateImages(a2i, article_ids, 1)[i] :
        i \in 1..Len(CandidateImages(a2i, article_ids, 1))}

\* C28: the article rank of a candidate image is the smallest position of an
\* article listing it among the query's valid stage-1 articles.
C28_RankOfBestArticle ==
    (pipe_pc \in {"families", "save", "done"} /\ classified # <<>>) =>
        \A q \in 1..Len(classified.queries_with_articles) :
           LET article_ids == DictGet(classified.query_to_articles,
                                      classified.queries_with_articles[q], <<>>)
               article_rank_map == ArticleRankMap(article_to_images, article_ids, 1, <<>>)
           IN \A image_id \in CandidateSet(article_to_images, article_ids) :
                 /\ DictGet(article_rank_map, image_id, NoRank)
                       \in ListingRanks(article_to_images, article_ids, image_id)
                 /\ \A rank \in ListingRanks(article_to_images, article_ids, image_id) :
                       DictGet(article_rank_map, image_id, NoRank) <= rank

(***************************************************************************)
(* The files rrf_rerank_csvs leaves behind.                                 *)
(***************************************************************************)
\* The paths of a set of files.
Paths(files) == {f.path : f \in files}

\* C29: a call of rrf_rerank_csvs with two or more files leaves every file
\* that was there before the call as it was (but the result file it writes),
\* and leaves no working copy behind.
C29_OnlyResultFileChanges ==
    [][(pipe_pc = "rrf" /\ Len(csv_files) > 1) =>
          LET result == RrfCsvPath(output_dir,
                            IF run_args.adaptive_rrf THEN "adaptive" ELSE "normal")
          IN /\ \A f \in fs : f.path # result => f \in fs'
             /\ Paths(fs') \subseteq Paths(fs) \cup {result}]_vars

(***************************************************************************)
(* The queries the two modes of the reranker skip.                          *)
(***************************************************************************)
\* C30: the adaptive mode returns the row of '#' for a query exactly when the
\* normal mode does: when the query is missing from a file or a file's row of
\* the query has no valid entry.
C30_AdaptiveSkipsAsNormal ==
    (rrf_pc \in {"loop", "done"} /\ adaptive) =>
        \A j \in 1..Len(reranked_results) :
           (\A c \in 1..TopNCols : reranked_results[j].cells[c] = "#")
           <=> (\E i \in 1..Len(dfs) : NoValidEntry(dfs[i], reranked_results[j].query_id))

====
